---- MODULE Spec2Model ----
(***************************************************************************)
(* Model of the embedded terminal emulator of daisied/aln                  *)
(* (src/ui/tabbar.go, type Terminal): the escape-sequence parser, the      *)
(* screen model, the scrollback store and the resize/reflow engine.        *)
(*                                                                         *)
(* The Go code indexes rows and columns from 0; the model keeps rows,      *)
(* scrollback and byte buffers as sequences, so cell (i, j) of the code is *)
(* cells[i+1][j+1] here.  Bytes and runes are their integer values.        *)
(* A Go run-time panic (index out of range) is the flag `panicked`: the    *)
(* process is dead and no operation runs after it.                         *)
(***************************************************************************)
EXTENDS Integers, Sequences, FiniteSets, TLC

(***************************************************************************)
(* Bounds of the model.                                                    *)
(***************************************************************************)
\* largest row count and column count of a terminal (NewTerminal, Resize)
MaxRows == 2
MaxCols == 2
\* number of operations (output chunks, resizes) in one behaviour
MaxSteps == 6
\* the scrollback capacity, 10000 in tabbar.go:1088, scaled to the model
ScrollbackCap == 2

(***************************************************************************)
(* Bytes.                                                                  *)
(***************************************************************************)
ESC == 27
BEL == 7
NUL == 0
SO == 14
SI == 15
CR == 13
LF == 10
BS == 8
TAB == 9
SPACE == 32

\* the bytes of the ASCII characters the chunks below are written with
Byte(c) ==
    CASE c = "[" -> 91 [] c = "]" -> 93 [] c = "(" -> 40 [] c = "\\" -> 92
      [] c = "?" -> 63 [] c = ";" -> 59 [] c = "=" -> 61 [] c = ">" -> 62
      [] c = "0" -> 48 [] c = "1" -> 49 [] c = "2" -> 50 [] c = "3" -> 51
      [] c = "4" -> 52 [] c = "5" -> 53 [] c = "6" -> 54 [] c = "7" -> 55
      [] c = "8" -> 56 [] c = "9" -> 57
      [] c = "A" -> 65 [] c = "B" -> 66 [] c = "C" -> 67 [] c = "D" -> 68
      [] c = "E" -> 69 [] c = "F" -> 70 [] c = "G" -> 71 [] c = "H" -> 72
      [] c = "J" -> 74 [] c = "K" -> 75 [] c = "L" -> 76 [] c = "M" -> 77
      [] c = "P" -> 80 [] c = "S" -> 83 [] c = "T" -> 84 [] c = "X" -> 88
      [] c = "@" -> 64 [] c = "d" -> 100 [] c = "f" -> 102 [] c = "h" -> 104
      [] c = "l" -> 108 [] c = "m" -> 109 [] c = "n" -> 110 [] c = "r" -> 114
      [] c = "s" -> 115 [] c = "u" -> 117
      [] c = "Z" -> 90 [] c = "c" -> 99 [] c = "~" -> 126 [] c = "O" -> 79
      [] c = ":" -> 58

RECURSIVE TupleUpTo(_, _)
\* the first n values of f as a tuple
TupleUpTo(f, n) == IF n = 0 THEN <<>> ELSE Append(TupleUpTo(f, n - 1), f[n])

\* a function on 1..n as the sequence of its values
AsSeq(f) == TupleUpTo(f, Len(f))

Min(a, b) == IF a < b THEN a ELSE b
Max(a, b) == IF a > b THEN a ELSE b

(***************************************************************************)
(* Cells and styles.  A tcell.Style is the record of the attributes and    *)
(* colours the code sets; a colour is its palette index, -1 the default.   *)
(***************************************************************************)
ColorDefault == -1

StyleDefault ==
    [fg |-> ColorDefault, bg |-> ColorDefault, bold |-> FALSE, dim |-> FALSE,
     italic |-> FALSE, underline |-> FALSE, reverse |-> FALSE]

Cell(ch, style) == [Ch |-> ch, Style |-> style]

\* Cell{Ch: ' ', Style: tcell.StyleDefault}
BlankCell == Cell(SPACE, StyleDefault)

\* a row of n default blanks (the inner loop of initCells)
BlankRow(n) == AsSeq([j \in 1..n |-> BlankCell])

\* a grid of r rows of c default blanks
BlankGrid(r, c) == AsSeq([i \in 1..r |-> BlankRow(c)])

\* make([]bool, n)
NoWraps(n) == AsSeq([i \in 1..n |-> FALSE])

\* the value of a nil slice (t.mainCells before and after the alternate screen)
Nil == <<>>

(***************************************************************************)
(* The state: the fields of type Terminal (tabbar.go:459-511) that the     *)
(* parser, the screen model and the resize engine read or write.           *)
(***************************************************************************)
VARIABLES
    cells,          \* t.cells: the active grid
    wrapped,        \* t.wrapped: per-row soft-wrap flags
    curRow, curCol, \* cursor
    rows, cols,     \* dimensions
    scrollTop, scrollBot,
    state, csiBuf, oscBuf,      \* ANSI parser state
    curStyle,
    scrollback,     \* sequence of [cells, wrapped], oldest first
    viewOffset,
    mainCells,      \* saved main grid while the alternate screen is active
    altActive,
    cursorHidden,
    savedCurRow, savedCurCol, savedStyle,
    bracketedPaste, appCursorKeys,
    title,          \* t.Title
    ptyOut,         \* bytes written to t.ptyFile
    panicked,       \* a run-time panic has ended the process
    altEntry,       \* history: the terminal as it was when the alternate screen was entered
    steps,          \* history: number of operations performed
    lastOp,         \* history: the last operation of the event loop, Nil when not recorded
    sel,            \* t.selStartRow, t.selStartCol, t.selEndRow, t.selEndCol, t.selecting
    focused,        \* t.focused
    clipboard,      \* terminalClipboard
    unlocked,       \* history: the Terminal fields the last operation touched without t.mu
    ptyBuf,         \* bytes the child has written that the reader has not read
    inHand,         \* the chunk the reader has read and not yet posted
    readerPC,       \* the reader goroutine: "read", "post" or "done"
    queue,          \* the screen's event queue: TermOutputEvent chunks, oldest first
    consumed,       \* history: the bytes handed to ProcessOutput, in order
    readLog,        \* history: the bytes the reader has read, in order
    ptyClosed,      \* t.ptyFile has been closed
    childKilled,    \* t.cmd.Process has been killed
    loopPC,         \* the event loop: "run", "close" or "exit"
    Tabs,           \* tb.Tabs: sequence of Tab, index 0 first
    Active,         \* tb.Active
    scrollOff,      \* tb.scrollOff
    tbW             \* tb.w: the width of the last TabBar.Render

vars == <<cells, wrapped, curRow, curCol, rows, cols, scrollTop, scrollBot,
          state, csiBuf, oscBuf, curStyle, scrollback, viewOffset, mainCells,
          altActive, cursorHidden, savedCurRow, savedCurCol, savedStyle,
          bracketedPaste, appCursorKeys, title, ptyOut, panicked, altEntry,
          steps, lastOp, sel, focused, clipboard, unlocked, ptyBuf, inHand,
          readerPC, queue, consumed, readLog, ptyClosed, childKilled, loopPC,
          Tabs, Active, scrollOff, tbW>>

\* the fields of the Terminal
tvars == <<cells, wrapped, curRow, curCol, rows, cols, scrollTop, scrollBot,
           state, csiBuf, oscBuf, curStyle, scrollback, viewOffset, mainCells,
           altActive, cursorHidden, savedCurRow, savedCurCol, savedStyle,
           bracketedPaste, appCursorKeys, title, ptyOut, panicked, altEntry>>

\* the fields of the TabBar
tbVars == <<Tabs, Active, scrollOff, tbW>>

\* the state of the user-facing operations
opVars == <<lastOp, sel, focused, clipboard, unlocked>>

\* the state of the reader goroutine, the event queue and the shutdown
ioVars == <<ptyBuf, inHand, readerPC, queue, consumed, readLog, ptyClosed,
            childKilled, loopPC>>

\* the terminal as one value, for the operators that transform it
T ==
    [cells |-> cells, wrapped |-> wrapped, curRow |-> curRow, curCol |-> curCol,
     rows |-> rows, cols |-> cols, scrollTop |-> scrollTop,
     scrollBot |-> scrollBot, state |-> state, csiBuf |-> csiBuf,
     oscBuf |-> oscBuf, curStyle |-> curStyle, scrollback |-> scrollback,
     viewOffset |-> viewOffset, mainCells |-> mainCells,
     altActive |-> altActive, cursorHidden |-> cursorHidden,
     savedCurRow |-> savedCurRow, savedCurCol |-> savedCurCol,
     savedStyle |-> savedStyle, bracketedPaste |-> bracketedPaste,
     appCursorKeys |-> appCursorKeys, title |-> title, ptyOut |-> ptyOut,
     panicked |-> panicked, altEntry |-> altEntry]

\* the next state is the terminal t
Becomes(t) ==
    /\ cells' = t.cells /\ wrapped' = t.wrapped
    /\ curRow' = t.curRow /\ curCol' = t.curCol
    /\ rows' = t.rows /\ cols' = t.cols
    /\ scrollTop' = t.scrollTop /\ scrollBot' = t.scrollBot
    /\ state' = t.state /\ csiBuf' = t.csiBuf /\ oscBuf' = t.oscBuf
    /\ curStyle' = t.curStyle /\ scrollback' = t.scrollback
    /\ viewOffset' = t.viewOffset /\ mainCells' = t.mainCells
    /\ altActive' = t.altActive /\ cursorHidden' = t.cursorHidden
    /\ savedCurRow' = t.savedCurRow /\ savedCurCol' = t.savedCurCol
    /\ savedStyle' = t.savedStyle /\ bracketedPaste' = t.bracketedPaste
    /\ appCursorKeys' = t.appCursorKeys /\ title' = t.title
    /\ ptyOut' = t.ptyOut /\ panicked' = t.panicked
    /\ altEntry' = t.altEntry

\* the initial state is the terminal t
Becomes0(t) ==
    /\ cells = t.cells /\ wrapped = t.wrapped
    /\ curRow = t.curRow /\ curCol = t.curCol
    /\ rows = t.rows /\ cols = t.cols
    /\ scrollTop = t.scrollTop /\ scrollBot = t.scrollBot
    /\ state = t.state /\ csiBuf = t.csiBuf /\ oscBuf = t.oscBuf
    /\ curStyle = t.curStyle /\ scrollback = t.scrollback
    /\ viewOffset = t.viewOffset /\ mainCells = t.mainCells
    /\ altActive = t.altActive /\ cursorHidden = t.cursorHidden
    /\ savedCurRow = t.savedCurRow /\ savedCurCol = t.savedCurCol
    /\ savedStyle = t.savedStyle /\ bracketedPaste = t.bracketedPaste
    /\ appCursorKeys = t.appCursorKeys /\ title = t.title
    /\ ptyOut = t.ptyOut /\ panicked = t.panicked
    /\ altEntry = t.altEntry

\* NewTerminal(screen, shell, r, c): the struct literal and initCells
NewTerminal(r, c) ==
    [cells |-> BlankGrid(r, c), wrapped |-> NoWraps(r), curRow |-> 0,
     curCol |-> 0, rows |-> r, cols |-> c, scrollTop |-> 0,
     scrollBot |-> r - 1, state |-> "stateNormal", csiBuf |-> <<>>,
     oscBuf |-> <<>>, curStyle |-> StyleDefault, scrollback |-> <<>>,
     viewOffset |-> 0, mainCells |-> Nil, altActive |-> FALSE,
     cursorHidden |-> FALSE, savedCurRow |-> 0, savedCurCol |-> 0,
     savedStyle |-> StyleDefault, bracketedPaste |-> FALSE,
     appCursorKeys |-> FALSE, title |-> <<>>, ptyOut |-> <<>>,
     panicked |-> FALSE, altEntry |-> Nil]

\* an index i is valid for a slice of length n
InRange(i, n) == 0 <= i /\ i < n

\* the effect of a Go index-out-of-range panic
Panic(t) == [t EXCEPT !.panicked = TRUE]

(***************************************************************************)
(* Screen model: scrolling, line feed, printing.                           *)
(***************************************************************************)
\* the first half of scrollUp putting the evicted row at the oldest end
pushScrollback_atOldestEnd(t) ==
    LET line == [cells |-> t.cells[t.scrollTop + 1],
                 wrapped |-> IF t.scrollTop < Len(t.wrapped)
                             THEN t.wrapped[t.scrollTop + 1] ELSE FALSE]
        sb == <<line>> \o t.scrollback
    IN  [t EXCEPT !.scrollback = IF Len(sb) > ScrollbackCap THEN Tail(sb) ELSE sb]

\* the first half of scrollUp: append the top row of the region to the
\* scrollback and evict the oldest entry beyond the capacity
pushScrollback(t) ==
    LET line == [cells |-> t.cells[t.scrollTop + 1],
                 wrapped |-> IF t.scrollTop < Len(t.wrapped)
                             THEN t.wrapped[t.scrollTop + 1] ELSE FALSE]
        sb == Append(t.scrollback, line)
    IN  [t EXCEPT !.scrollback = IF Len(sb) > ScrollbackCap THEN Tail(sb) ELSE sb]

\* the second half of scrollUp: shift the region up, blank its bottom row
shiftUp(t) ==
    LET top == t.scrollTop
        bot == t.scrollBot
        moved == AsSeq([i \in 1..Len(t.cells) |->
                    IF top <= i - 1 /\ i - 1 < bot THEN t.cells[i + 1] ELSE t.cells[i]])
        wmoved == AsSeq([i \in 1..Len(t.wrapped) |->
                    IF top <= i - 1 /\ i - 1 < bot /\ i < Len(t.wrapped)
                    THEN t.wrapped[i + 1] ELSE t.wrapped[i]])
    IN  IF ~InRange(bot, Len(t.cells)) THEN Panic(t)
        ELSE [t EXCEPT !.cells = [moved EXCEPT ![bot + 1] = BlankRow(t.cols)],
                       !.wrapped = IF bot < Len(wmoved)
                                   THEN [wmoved EXCEPT ![bot + 1] = FALSE]
                                   ELSE wmoved]

\* scrollUp without its test of altActive: the top row is saved on either screen
scrollUp_pushInAlt(t) ==
    IF t.panicked THEN t
    ELSE IF ~InRange(t.scrollTop, Len(t.cells)) THEN Panic(t)
    ELSE shiftUp(pushScrollback(t))

scrollUp(t) ==
    IF t.panicked THEN t
    ELSE IF t.altActive THEN shiftUp(t)
    ELSE IF ~InRange(t.scrollTop, Len(t.cells)) THEN Panic(t)
    ELSE shiftUp(pushScrollback(t))

scrollDown(t) ==
    LET top == t.scrollTop
        bot == t.scrollBot
        moved == AsSeq([i \in 1..Len(t.cells) |->
                    IF top < i - 1 /\ i - 1 <= bot THEN t.cells[i - 1] ELSE t.cells[i]])
        wmoved == AsSeq([i \in 1..Len(t.wrapped) |->
                    IF top < i - 1 /\ i - 1 <= bot THEN t.wrapped[i - 1] ELSE t.wrapped[i]])
    IN  IF t.panicked THEN t
        ELSE IF ~InRange(top, Len(t.cells)) THEN Panic(t)
        ELSE [t EXCEPT !.cells = [moved EXCEPT ![top + 1] = BlankRow(t.cols)],
                       !.wrapped = IF top < Len(wmoved)
                                   THEN [wmoved EXCEPT ![top + 1] = FALSE]
                                   ELSE wmoved]

\* lineFeed that tests the top of the scroll region where the bottom is meant
lineFeed_wrongBound(t) ==
    LET t1 == IF InRange(t.curRow, Len(t.wrapped))
              THEN [t EXCEPT !.wrapped[t.curRow + 1] = FALSE] ELSE t
    IN  IF t.panicked THEN t
        ELSE IF t1.curRow = t1.scrollTop THEN scrollUp(t1)
        ELSE IF t1.curRow < t1.rows - 1 THEN [t1 EXCEPT !.curRow = t1.curRow + 1]
        ELSE t1

lineFeed(t) ==
    LET t1 == IF InRange(t.curRow, Len(t.wrapped))
              THEN [t EXCEPT !.wrapped[t.curRow + 1] = FALSE] ELSE t
    IN  IF t.panicked THEN t
        ELSE IF t1.curRow = t1.scrollBot THEN scrollUp(t1)
        ELSE IF t1.curRow < t1.rows - 1 THEN [t1 EXCEPT !.curRow = t1.curRow + 1]
        ELSE t1

reverseIndex(t) ==
    IF t.panicked THEN t
    ELSE IF t.curRow = t.scrollTop THEN scrollDown(t)
    ELSE IF t.curRow > 0 THEN [t EXCEPT !.curRow = t.curRow - 1]
    ELSE t

\* the end of putChar: write the cell at the cursor, advance the column
writeCell(t, ch) ==
    IF t.panicked THEN t
    ELSE IF ~InRange(t.curRow, Len(t.cells)) THEN Panic(t)
    ELSE IF ~InRange(t.curCol, Len(t.cells[t.curRow + 1])) THEN Panic(t)
    ELSE [t EXCEPT !.cells[t.curRow + 1][t.curCol + 1] = Cell(ch, t.curStyle),
                   !.curCol = t.curCol + 1]

\* the wrap of putChar: mark the row wrapped, column 0, line feed
wrapLineFeed(t) ==
    lineFeed([(IF InRange(t.curRow, Len(t.wrapped))
               THEN [t EXCEPT !.wrapped[t.curRow + 1] = TRUE]
               ELSE t) EXCEPT !.curCol = 0])

putChar(t, ch) ==
    IF t.panicked THEN t
    ELSE IF t.curRow < 0 \/ t.curRow >= t.rows \/ t.curCol < 0 THEN t
    ELSE writeCell(IF t.curCol >= t.cols THEN wrapLineFeed(t) ELSE t, ch)

(***************************************************************************)
(* Parameter parsing (tabbar.go:1997-2045).  The parameters of the model's *)
(* sequences have at most a few digits, so n*10 + d never leaves the range *)
(* of a Go int.                                                            *)
(***************************************************************************)
IsDigit(b) == 48 <= b /\ b <= 57

RECURSIVE parseDigits(_, _)
\* the loop of parseParam: every digit extends n, every other byte is skipped
parseDigits(s, n) ==
    IF s = <<>> THEN n
    ELSE parseDigits(Tail(s), IF IsDigit(Head(s)) THEN n * 10 + (Head(s) - 48) ELSE n)

parseParam(s, def) ==
    IF s = <<>> THEN def
    ELSE LET n == parseDigits(s, 0) IN IF n = 0 THEN def ELSE n

RECURSIVE splitFrom(_, _, _)
\* splitString's loop: `cur` is s[start:i], the part being read
splitFrom(s, sep, cur) ==
    IF s = <<>> THEN <<cur>>
    ELSE IF Head(s) = sep THEN <<cur>> \o splitFrom(Tail(s), sep, <<>>)
    ELSE splitFrom(Tail(s), sep, Append(cur, Head(s)))

splitString(s, sep) == splitFrom(s, sep, <<>>)

\* the pair (a, b) as a sequence of two numbers
parseParamPair(s, def1, def2) ==
    LET parts == splitString(s, Byte(";"))
    IN  << IF Len(parts) >= 1 /\ parts[1] # <<>> THEN parseParam(parts[1], def1) ELSE def1,
           IF Len(parts) >= 2 /\ parts[2] # <<>> THEN parseParam(parts[2], def2) ELSE def2 >>

splitParams(s) ==
    LET parts == splitString(s, Byte(";"))
    IN  AsSeq([k \in 1..Len(parts) |-> parseParam(parts[k], 0)])

RECURSIVE FormatInt(_)
\* fmt's %d of a number >= 0, as bytes
FormatInt(n) ==
    IF n < 10 THEN <<48 + n>> ELSE Append(FormatInt(n \div 10), 48 + (n % 10))

(***************************************************************************)
(* Alternate screen (tabbar.go:1344-1376).                                 *)
(***************************************************************************)
\* enterAltScreen that keeps the scroll region of the main screen
enterAltScreen_keepsRegion(t) ==
    IF t.panicked \/ t.altActive THEN t
    ELSE [t EXCEPT !.mainCells = t.cells,
                   !.cells = BlankGrid(t.rows, t.cols),
                   !.altActive = TRUE,
                   !.altEntry = [cells |-> t.cells, wrapped |-> t.wrapped,
                                 rows |-> t.rows, cols |-> t.cols,
                                 scrollback |-> t.scrollback,
                                 resized |-> FALSE]]

enterAltScreen(t) ==
    IF t.panicked \/ t.altActive THEN t
    ELSE [t EXCEPT !.mainCells = t.cells,
                   !.cells = BlankGrid(t.rows, t.cols),
                   !.altActive = TRUE,
                   !.scrollTop = 0,
                   !.scrollBot = t.rows - 1,
                   !.altEntry = [cells |-> t.cells, wrapped |-> t.wrapped,
                                 rows |-> t.rows, cols |-> t.cols,
                                 scrollback |-> t.scrollback,
                                 resized |-> FALSE]]

exitAltScreen(t) ==
    IF t.panicked \/ ~t.altActive THEN t
    ELSE [t EXCEPT !.cells = t.mainCells,
                   !.mainCells = Nil,
                   !.altActive = FALSE,
                   !.scrollTop = 0,
                   !.scrollBot = t.rows - 1,
                   !.altEntry = Nil]

\* restore of the saved cursor: DECRC, CSI u and the reset of mode 1049
restoreCursor(t) ==
    LET r == IF t.savedCurRow >= t.rows THEN t.rows - 1 ELSE t.savedCurRow
        c == IF t.savedCurCol >= t.cols THEN t.cols - 1 ELSE t.savedCurCol
    IN  [t EXCEPT !.curRow = r, !.curCol = c, !.curStyle = t.savedStyle]

saveCursor(t) ==
    [t EXCEPT !.savedCurRow = t.curRow, !.savedCurCol = t.curCol,
              !.savedStyle = t.curStyle]

\* one iteration of processMode's loop over the codes
\* applyMode that takes every mode number for DECCKM
applyMode_everyModeIsCursorKeys(t, code, set) == [t EXCEPT !.appCursorKeys = set]

applyMode(t, code, set) ==
    IF t.panicked THEN t
    ELSE CASE code = 1 -> [t EXCEPT !.appCursorKeys = set]
           [] code = 25 -> [t EXCEPT !.cursorHidden = ~set]
           [] code = 47 \/ code = 1047 ->
                IF set THEN enterAltScreen(t) ELSE exitAltScreen(t)
           [] code = 1049 ->
                IF set THEN enterAltScreen(saveCursor(t))
                ELSE restoreCursor(exitAltScreen(t))
           [] code = 2004 -> [t EXCEPT !.bracketedPaste = set]
           [] OTHER -> t

RECURSIVE applyModes(_, _, _)
applyModes(t, codes, set) ==
    IF codes = <<>> THEN t
    ELSE applyModes(applyMode(t, Head(codes), set), Tail(codes), set)

processMode(t, params, set) ==
    IF params # <<>> /\ Head(params) = Byte("?")
    THEN applyModes(t, splitParams(Tail(params)), set)
    ELSE t

(***************************************************************************)
(* Erase operations (tabbar.go:1461-1528).  A loop whose index leaves the  *)
(* row panics, as t.cells[t.curRow][j] does for j = cols.                  *)
(***************************************************************************)
\* row i (0-based) of grid g with the columns lo..hi (0-based, inclusive) blanked
blankCols(g, i, lo, hi) ==
    [g EXCEPT ![i + 1] = AsSeq([j \in 1..Len(g[i + 1]) |->
                            IF lo <= j - 1 /\ j - 1 <= hi THEN BlankCell ELSE g[i + 1][j]])]

\* every row i (0-based) of g with lo <= i <= hi blanked, and its wrap flag cleared
blankRows(t, lo, hi) ==
    [t EXCEPT !.cells = AsSeq([i \in 1..Len(t.cells) |->
                           IF lo <= i - 1 /\ i - 1 <= hi
                           THEN BlankRow(Len(t.cells[i])) ELSE t.cells[i]]),
              !.wrapped = AsSeq([i \in 1..Len(t.wrapped) |->
                             IF lo <= i - 1 /\ i - 1 <= hi THEN FALSE ELSE t.wrapped[i]])]

clearWrap(t, i) ==
    IF i < Len(t.wrapped) THEN [t EXCEPT !.wrapped[i + 1] = FALSE] ELSE t

eraseDisplay(t, mode) ==
    IF t.panicked THEN t
    ELSE CASE mode = 0 ->
                IF t.curCol < t.cols /\ ~InRange(t.curRow, Len(t.cells)) THEN Panic(t)
                ELSE IF t.curCol < t.cols /\ t.cols > Len(t.cells[t.curRow + 1]) THEN Panic(t)
                ELSE IF t.curRow + 1 < t.rows /\ t.cols > 0 /\ t.rows > Len(t.cells) THEN Panic(t)
                ELSE blankRows(
                       clearWrap([t EXCEPT !.cells = IF InRange(t.curRow, Len(t.cells))
                                                     THEN blankCols(t.cells, t.curRow, t.curCol, t.cols - 1)
                                                     ELSE t.cells],
                                 t.curRow),
                       t.curRow + 1, t.rows - 1)
           [] mode = 1 ->
                IF ~InRange(t.curRow, Len(t.cells)) THEN Panic(t)
                ELSE IF t.curCol >= Len(t.cells[t.curRow + 1]) THEN Panic(t)
                ELSE blankRows([t EXCEPT !.cells = blankCols(t.cells, t.curRow, 0, t.curCol)],
                               0, t.curRow - 1)
           [] mode = 2 \/ mode = 3 ->
                IF t.cols > 0 /\ t.rows > Len(t.cells) THEN Panic(t)
                ELSE blankRows(t, 0, t.rows - 1)
           [] OTHER -> t

eraseLine(t, mode) ==
    IF t.panicked THEN t
    ELSE CASE mode = 0 ->
                IF t.curCol < t.cols /\ ~InRange(t.curRow, Len(t.cells)) THEN Panic(t)
                ELSE IF t.curCol < t.cols /\ t.cols > Len(t.cells[t.curRow + 1]) THEN Panic(t)
                ELSE clearWrap([t EXCEPT !.cells = IF InRange(t.curRow, Len(t.cells))
                                                   THEN blankCols(t.cells, t.curRow, t.curCol, t.cols - 1)
                                                   ELSE t.cells],
                               t.curRow)
           [] mode = 1 ->
                IF ~InRange(t.curRow, Len(t.cells)) THEN Panic(t)
                ELSE IF t.curCol >= Len(t.cells[t.curRow + 1]) THEN Panic(t)
                ELSE [t EXCEPT !.cells = blankCols(t.cells, t.curRow, 0, t.curCol)]
           [] mode = 2 ->
                IF t.cols > 0 /\ ~InRange(t.curRow, Len(t.cells)) THEN Panic(t)
                ELSE IF t.cols > Len(t.cells[t.curRow + 1]) THEN Panic(t)
                ELSE clearWrap([t EXCEPT !.cells = blankCols(t.cells, t.curRow, 0, t.cols - 1)],
                               t.curRow)
           [] OTHER -> t

(***************************************************************************)
(* Select Graphic Rendition (tabbar.go:1395-1459, 2047-2067).              *)
(***************************************************************************)
\* tcell.NewRGBColor: a value apart from every palette index
NewRGBColor(r, g, b) == 16777216 + (r % 256) * 65536 + (g % 256) * 256 + (b % 256)

\* ansiColor(n) for n in 0..7 is palette colour n (ColorBlack .. ColorSilver)
ansiColor(n) == IF n >= 0 /\ n < 8 THEN n ELSE 15

\* ansiBrightColor(n) for n in 0..7 is palette colour 8+n (ColorGray .. ColorWhite)
ansiBrightColor(n) == IF n >= 0 /\ n < 8 THEN 8 + n ELSE 15

\* the extended colour at codes[i], codes[i+1], ... (1-based i): <<colour, codes consumed>>
\* or <<>> when the sequence is incomplete
extColor(codes, i) ==
    IF i + 1 <= Len(codes) /\ codes[i + 1] = 5 /\ i + 2 <= Len(codes)
    THEN <<codes[i + 2], 2>>
    ELSE IF i + 1 <= Len(codes) /\ codes[i + 1] = 2 /\ i + 4 <= Len(codes)
    THEN <<NewRGBColor(codes[i + 2], codes[i + 3], codes[i + 4]), 4>>
    ELSE <<>>

\* one case of processSGR's switch: <<new style, codes consumed beyond this one>>
sgrCode(st, codes, i) ==
    LET c == codes[i]
        ext == extColor(codes, i)
    IN  CASE c = 0 -> <<StyleDefault, 0>>
          [] c = 1 -> <<[st EXCEPT !.bold = TRUE], 0>>
          [] c = 2 -> <<[st EXCEPT !.dim = TRUE], 0>>
          [] c = 3 -> <<[st EXCEPT !.italic = TRUE], 0>>
          [] c = 4 -> <<[st EXCEPT !.underline = TRUE], 0>>
          [] c = 7 -> <<[st EXCEPT !.reverse = TRUE], 0>>
          [] c = 22 -> <<[st EXCEPT !.bold = FALSE, !.dim = FALSE], 0>>
          [] c = 23 -> <<[st EXCEPT !.italic = FALSE], 0>>
          [] c = 24 -> <<[st EXCEPT !.underline = FALSE], 0>>
          [] c = 27 -> <<[st EXCEPT !.reverse = FALSE], 0>>
          [] c >= 30 /\ c <= 37 -> <<[st EXCEPT !.fg = ansiColor(c - 30)], 0>>
          [] c = 38 -> IF ext = <<>> THEN <<st, 0>>
                       ELSE <<[st EXCEPT !.fg = ext[1]], ext[2]>>
          [] c = 39 -> <<[st EXCEPT !.fg = ColorDefault], 0>>
          [] c >= 40 /\ c <= 47 -> <<[st EXCEPT !.bg = ansiColor(c - 40)], 0>>
          [] c = 48 -> IF ext = <<>> THEN <<st, 0>>
                       ELSE <<[st EXCEPT !.bg = ext[1]], ext[2]>>
          [] c = 49 -> <<[st EXCEPT !.bg = ColorDefault], 0>>
          [] c >= 90 /\ c <= 97 -> <<[st EXCEPT !.fg = ansiBrightColor(c - 90)], 0>>
          [] c >= 100 /\ c <= 107 -> <<[st EXCEPT !.bg = ansiBrightColor(c - 100)], 0>>
          [] OTHER -> <<st, 0>>

RECURSIVE sgrLoop(_, _, _)
sgrLoop(st, codes, i) ==
    IF i > Len(codes) THEN st
    ELSE LET r == sgrCode(st, codes, i) IN sgrLoop(r[1], codes, i + r[2] + 1)

processSGR(t, params) ==
    IF params = <<>> \/ params = <<48>>
    THEN [t EXCEPT !.curStyle = StyleDefault]
    ELSE [t EXCEPT !.curStyle = sgrLoop(t.curStyle, splitParams(params), 1)]

(***************************************************************************)
(* CSI dispatch (tabbar.go:1124-1293).                                     *)
(***************************************************************************)
RECURSIVE repeat(_, _, _)
\* for i := 0; i < n; i++ { op(t) }, op one of scrollUp and scrollDown
repeat(up, t, n) ==
    IF n <= 0 \/ t.panicked THEN t
    ELSE repeat(up, IF up THEN scrollUp(t) ELSE scrollDown(t), n - 1)

clampRow(t) ==
    LET r == IF t.curRow < 0 THEN 0 ELSE IF t.curRow >= t.rows THEN t.rows - 1 ELSE t.curRow
    IN  [t EXCEPT !.curRow = r]

clampCol(t) ==
    LET c == IF t.curCol < 0 THEN 0 ELSE IF t.curCol >= t.cols THEN t.cols - 1 ELSE t.curCol
    IN  [t EXCEPT !.curCol = c]

\* case 'r'
setScrollRegion(t, p) ==
    LET top == p[1] - 1
        bot == p[2] - 1
    IN  [t EXCEPT !.scrollTop = IF top < 0 THEN 0 ELSE top,
                  !.scrollBot = IF bot >= t.rows THEN t.rows - 1 ELSE bot]

\* case 'P'
deleteChars(t, n) ==
    IF ~InRange(t.curRow, Len(t.cells)) THEN Panic(t)
    ELSE LET row == t.cells[t.curRow + 1]
         IN  IF t.cols > Len(row) THEN Panic(t)
             ELSE [t EXCEPT !.cells[t.curRow + 1] =
                     AsSeq([j \in 1..Len(row) |->
                        IF j - 1 >= t.cols - n /\ j - 1 < t.cols THEN BlankCell
                        ELSE IF j - 1 >= t.curCol /\ j - 1 < t.cols - n THEN row[j + n]
                        ELSE row[j]])]

\* case '@'
insertChars(t, n) ==
    IF ~InRange(t.curRow, Len(t.cells)) THEN Panic(t)
    ELSE LET row == t.cells[t.curRow + 1]
         IN  IF t.cols > Len(row) THEN Panic(t)
             ELSE [t EXCEPT !.cells[t.curRow + 1] =
                     AsSeq([j \in 1..Len(row) |->
                        IF j - 1 >= t.curCol /\ j - 1 < t.curCol + n /\ j - 1 < t.cols
                        THEN BlankCell
                        ELSE IF j - 1 >= t.curCol + n /\ j - 1 <= t.cols - 1 THEN row[j - n]
                        ELSE row[j]])]

\* case 'X'
eraseChars(t, n) ==
    IF t.curCol < t.cols /\ ~InRange(t.curRow, Len(t.cells)) THEN Panic(t)
    ELSE IF t.curCol < t.cols /\ Min(t.curCol + n, t.cols) > Len(t.cells[t.curRow + 1])
    THEN Panic(t)
    ELSE IF t.curCol >= t.cols THEN t
    ELSE [t EXCEPT !.cells = blankCols(t.cells, t.curRow, t.curCol,
                                       Min(t.curCol + n, t.cols) - 1)]

\* case 'n'
deviceStatusReport(t, n) ==
    IF n = 6
    THEN [t EXCEPT !.ptyOut = t.ptyOut \o <<ESC, Byte("[")>> \o FormatInt(t.curRow + 1)
                                \o <<Byte(";")>> \o FormatInt(t.curCol + 1) \o <<Byte("R")>>]
    ELSE t

\* the switch of processCSI on the final byte; n0 and n1 are parseParam(params, 0)
\* and parseParam(params, 1), pos is parseParamPair(params, 1, 1) and region is
\* parseParamPair(params, 1, t.rows)
dispatchCSI(t, final, params, n0, n1, pos, region) ==
        CASE final = Byte("m") -> processSGR(t, params)
          [] final = Byte("A") ->
               [t EXCEPT !.curRow = IF t.curRow - n1 < 0 THEN 0 ELSE t.curRow - n1]
          [] final = Byte("B") ->
               [t EXCEPT !.curRow = IF t.curRow + n1 >= t.rows THEN t.rows - 1 ELSE t.curRow + n1]
          [] final = Byte("C") ->
               [t EXCEPT !.curCol = IF t.curCol + n1 >= t.cols THEN t.cols - 1 ELSE t.curCol + n1]
          [] final = Byte("D") ->
               [t EXCEPT !.curCol = IF t.curCol - n1 < 0 THEN 0 ELSE t.curCol - n1]
          [] final = Byte("H") \/ final = Byte("f") ->
               clampCol(clampRow([t EXCEPT !.curRow = pos[1] - 1, !.curCol = pos[2] - 1]))
          [] final = Byte("J") -> eraseDisplay(t, n0)
          [] final = Byte("K") -> eraseLine(t, n0)
          [] final = Byte("r") -> setScrollRegion(t, region)
          [] final = Byte("L") -> repeat(FALSE, t, n1)
          [] final = Byte("M") -> repeat(TRUE, t, n1)
          [] final = Byte("G") -> clampCol([t EXCEPT !.curCol = n1 - 1])
          [] final = Byte("d") -> clampRow([t EXCEPT !.curRow = n1 - 1])
          [] final = Byte("h") -> processMode(t, params, TRUE)
          [] final = Byte("l") -> processMode(t, params, FALSE)
          [] final = Byte("s") -> saveCursor(t)
          [] final = Byte("u") -> restoreCursor(t)
          [] final = Byte("S") -> repeat(TRUE, t, n1)
          [] final = Byte("T") -> repeat(FALSE, t, n1)
          [] final = Byte("E") ->
               [t EXCEPT !.curRow = IF t.curRow + n1 >= t.rows THEN t.rows - 1 ELSE t.curRow + n1,
                         !.curCol = 0]
          [] final = Byte("F") ->
               [t EXCEPT !.curRow = IF t.curRow - n1 < 0 THEN 0 ELSE t.curRow - n1,
                         !.curCol = 0]
          [] final = Byte("n") -> deviceStatusReport(t, n0)
          [] final = Byte("P") -> deleteChars(t, n1)
          [] final = Byte("@") -> insertChars(t, n1)
          [] final = Byte("X") -> eraseChars(t, n1)
          [] OTHER -> t

\* the bytes of csiBuf before the final one
csiParams(t) == SubSeq(t.csiBuf, 1, Len(t.csiBuf) - 1)

processCSI(t) ==
    IF t.panicked \/ t.csiBuf = <<>> THEN t
    ELSE dispatchCSI(t, t.csiBuf[Len(t.csiBuf)], csiParams(t),
                     parseParam(csiParams(t), 0), parseParam(csiParams(t), 1),
                     parseParamPair(csiParams(t), 1, 1),
                     parseParamPair(csiParams(t), 1, t.rows))

(***************************************************************************)
(* OSC dispatch (tabbar.go:1378-1393).                                     *)
(***************************************************************************)
RECURSIVE IndexByte(_, _, _)
\* strings.IndexByte, 0-based, -1 when absent; k is the 0-based index of Head(s)
IndexByte(s, b, k) ==
    IF s = <<>> THEN -1
    ELSE IF Head(s) = b THEN k
    ELSE IndexByte(Tail(s), b, k + 1)

processOSC(t) ==
    LET s == t.oscBuf
        idx == IndexByte(s, Byte(";"), 0)
        code == SubSeq(s, 1, idx)
        content == SubSeq(s, idx + 2, Len(s))
    IN  IF t.panicked \/ idx < 0 THEN t
        ELSE IF code = <<Byte("0")>> \/ code = <<Byte("2")>> \/ code = <<Byte("1")>>
        THEN [t EXCEPT !.title = content]
        ELSE t

(***************************************************************************)
(* The byte loop of ProcessOutput (tabbar.go:933-1039).                    *)
(***************************************************************************)
\* utf8.RuneError
RuneError == 65533

\* utf8.DecodeRune(data[i:]) as <<rune, size>>, i 1-based, for the one-byte and
\* two-byte encodings; the model's chunks hold no lead byte of a longer one
DecodeRune(data, i) ==
    LET b == data[i]
    IN  IF b < 128 THEN <<b, 1>>
        ELSE IF b >= 194 /\ b <= 223 /\ i + 1 <= Len(data)
                /\ data[i + 1] >= 128 /\ data[i + 1] <= 191
        THEN <<(b - 192) * 64 + (data[i + 1] - 128), 2>>
        ELSE <<RuneError, 1>>

\* case '\t'
tab(t) ==
    LET next == ((t.curCol \div 8) + 1) * 8
    IN  [t EXCEPT !.curCol = IF next >= t.cols THEN t.cols - 1 ELSE next]

\* one iteration in stateNormal at data[i]: <<terminal, bytes consumed>>
stepNormal(t, data, i) ==
    LET b == data[i]
        d == DecodeRune(data, i)
    IN  CASE b = ESC -> <<[t EXCEPT !.state = "stateEscape"], 1>>
          [] b = CR -> <<[t EXCEPT !.curCol = 0], 1>>
          [] b = LF -> <<lineFeed(t), 1>>
          [] b = BS -> <<IF t.curCol > 0 THEN [t EXCEPT !.curCol = t.curCol - 1] ELSE t, 1>>
          [] b = TAB -> <<tab(t), 1>>
          [] b = BEL \/ b = NUL \/ b = SO \/ b = SI -> <<t, 1>>
          [] OTHER ->
               IF b >= SPACE /\ d[1] # RuneError /\ d[1] >= SPACE
               THEN <<putChar(t, d[1]), d[2]>>
               ELSE <<t, 1>>

\* one iteration in stateEscape
stepEscape(t, b) ==
    CASE b = Byte("[") -> <<[t EXCEPT !.state = "stateCSI", !.csiBuf = <<>>], 1>>
      [] b = Byte("]") -> <<[t EXCEPT !.state = "stateOSC", !.oscBuf = <<>>], 1>>
      [] b = Byte("(") -> <<[t EXCEPT !.state = "stateNormal"], 2>>
      [] b = Byte("M") -> <<[reverseIndex(t) EXCEPT !.state = "stateNormal"], 1>>
      [] b = Byte("7") -> <<[saveCursor(t) EXCEPT !.state = "stateNormal"], 1>>
      [] b = Byte("8") -> <<[restoreCursor(t) EXCEPT !.state = "stateNormal"], 1>>
      [] OTHER -> <<[t EXCEPT !.state = "stateNormal"], 1>>

\* one iteration in stateCSI
stepCSI(t, b) ==
    LET t1 == [t EXCEPT !.csiBuf = Append(t.csiBuf, b)]
    IN  IF b >= 64 /\ b <= 126
        THEN <<[processCSI(t1) EXCEPT !.state = "stateNormal"], 1>>
        ELSE <<t1, 1>>

\* one iteration in stateOSC
stepOSC(t, data, i) ==
    LET b == data[i]
        st == b = ESC /\ i + 1 <= Len(data) /\ data[i + 1] = Byte("\\")
    IN  IF b = BEL \/ b = ESC
        THEN <<[processOSC(t) EXCEPT !.state = "stateNormal"], IF st THEN 2 ELSE 1>>
        ELSE <<[t EXCEPT !.oscBuf = Append(t.oscBuf, b)], 1>>

stepByte(t, data, i) ==
    CASE t.state = "stateNormal" -> stepNormal(t, data, i)
      [] t.state = "stateEscape" -> stepEscape(t, data[i])
      [] t.state = "stateCSI" -> stepCSI(t, data[i])
      [] t.state = "stateOSC" -> stepOSC(t, data, i)

RECURSIVE processFrom(_, _, _)
RECURSIVE advance(_, _, _)
\* i++ after the iteration that gave r = <<terminal, bytes consumed>>
advance(r, data, i) == processFrom(r[1], data, i + r[2])

\* for i < len(data) { ... i++ }; a panic ends the loop
processFrom(t, data, i) ==
    IF i > Len(data) \/ t.panicked THEN t
    ELSE advance(stepByte(t, data, i), data, i)

ProcessOutput(t, data) == processFrom(t, data, 1)

(***************************************************************************)
(* Resize (tabbar.go:573-931).                                             *)
(***************************************************************************)
RECURSIVE trimTrailingSpaces(_)
trimTrailingSpaces(row) ==
    IF row = <<>> THEN row
    ELSE LET last == row[Len(row)]
         IN  IF (last.Ch = SPACE \/ last.Ch = NUL) /\ last.Style = StyleDefault
             THEN trimTrailingSpaces(SubSeq(row, 1, Len(row) - 1))
             ELSE row

\* resizeSimple that copies every old row to the bottom of the new grid
copyGrid_bottomAligned(old, r, c, rmax, cmax) ==
    AsSeq([i \in 1..r |-> AsSeq([j \in 1..c |->
        IF i + Len(old) - r >= 1 /\ j <= cmax /\ j <= Len(old[i + Len(old) - r])
        THEN old[i + Len(old) - r][j] ELSE BlankCell])])

\* the copy loops of resizeSimple: cell (i, j) of old, when it exists and i < rmax
\* and j < cmax, lands at (i, j) of a blank r x c grid
copyGrid(old, r, c, rmax, cmax) ==
    AsSeq([i \in 1..r |-> AsSeq([j \in 1..c |->
        IF i <= rmax /\ i <= Len(old) /\ j <= cmax /\ j <= Len(old[i])
        THEN old[i][j] ELSE BlankCell])])

\* resizeSimple without its second half: the saved main grid keeps its old size
resizeSimple_mainNotResized(t, r, c, oldRows, oldCols) ==
    [t EXCEPT !.cells = copyGrid(t.cells, r, c, Min(oldRows, r), Min(oldCols, c)),
              !.wrapped = NoWraps(r)]

resizeSimple(t, r, c, oldRows, oldCols) ==
    [t EXCEPT !.cells = copyGrid(t.cells, r, c, Min(oldRows, r), Min(oldCols, c)),
              !.wrapped = NoWraps(r),
              !.mainCells = IF t.mainCells = Nil THEN Nil
                            ELSE copyGrid(t.mainCells, r, c, r, c)]

\* a row has a cell that is neither a space nor NUL
hasContent(row) == \E j \in 1..Len(row) : row[j].Ch # SPACE /\ row[j].Ch # NUL

\* step 1: the number of live rows that take part in the reflow
liveRowCount(t, oldRows) ==
    LET base == Min(t.curRow + 1, Len(t.cells))
        below == {rr \in base..(Min(Len(t.cells), oldRows) - 1) : hasContent(t.cells[rr + 1])}
    IN  IF below = {} THEN base
        ELSE (CHOOSE rr \in below : \A q \in below : q <= rr) + 1

\* the rows the reflow reads: the scrollback, then the live rows
reflowInput(t, liveRows) ==
    t.scrollback \o
    AsSeq([k \in 1..liveRows |->
        [cells |-> t.cells[k],
         wrapped |-> IF k - 1 < Len(t.wrapped) THEN t.wrapped[k] ELSE FALSE]])

RECURSIVE buildLogicalLines(_, _)
\* step 2: join the trimmed rows; a row that is not wrapped ends a logical line
buildLogicalLines(input, currentLine) ==
    IF input = <<>>
    THEN IF Len(currentLine) > 0 THEN <<currentLine>> ELSE <<>>
    ELSE LET line == currentLine \o trimTrailingSpaces(Head(input).cells)
         IN  IF ~Head(input).wrapped
             THEN <<line>> \o buildLogicalLines(Tail(input), <<>>)
             ELSE buildLogicalLines(Tail(input), line)

RECURSIVE cursorLogical(_, _, _, _, _)
\* step 3: <<cursorLogLine, cursorLogCol>>; input is first the scrollback (k <= nsb),
\* then the live rows, and the replay stops at the cursor's row
cursorLogical(t, input, k, line, col) ==
    LET nsb == Len(t.scrollback)
        rowLen == Len(trimTrailingSpaces(input[k].cells))
    IN  IF k > Len(input) THEN <<line, col>>
        ELSE IF k > nsb /\ k - nsb - 1 = t.curRow THEN <<line, col + t.curCol>>
        ELSE IF ~input[k].wrapped THEN cursorLogical(t, input, k + 1, line + 1, 0)
        ELSE cursorLogical(t, input, k + 1, line, col + rowLen)

\* a row of c cells holding the cells seg, padded with blanks
padRow(seg, c) == AsSeq([j \in 1..c |-> IF j <= Len(seg) THEN seg[j] ELSE BlankCell])

RECURSIVE wrapLine(_, _, _, _, _, _)
\* the inner loop of step 4 on one non-empty logical line, from charIdx on
wrapLine(acc, line, charIdx, isCursorLine, cursorLogCol, c) ==
    LET lineLen == Len(line)
        endIdx == Min(charIdx + c, lineLen)
        isWrapped == endIdx < lineLen
        inRow == cursorLogCol >= charIdx /\ cursorLogCol < endIdx
        atEnd == ~inRow /\ cursorLogCol >= lineLen /\ ~isWrapped
        hit == ~acc.found /\ isCursorLine /\ (inRow \/ atEnd)
        acc1 == [out |-> Append(acc.out, [cells |-> padRow(SubSeq(line, charIdx + 1, endIdx), c),
                                          wrapped |-> isWrapped]),
                 found |-> acc.found \/ hit,
                 row |-> IF hit THEN Len(acc.out) ELSE acc.row,
                 col |-> IF hit
                         THEN IF inRow THEN cursorLogCol - charIdx
                              ELSE Min(lineLen - charIdx, c)
                         ELSE acc.col]
    IN  IF charIdx >= lineLen THEN acc
        ELSE wrapLine(acc1, line, endIdx, isCursorLine, cursorLogCol, c)

RECURSIVE rewrap(_, _, _, _, _)
\* step 4: re-wrap the logical lines k, k+1, ... at width c
rewrap(acc, logLines, k, cur, c) ==
    LET line == logLines[k]
        isCursorLine == k - 1 = cur[1]
        hit == ~acc.found /\ isCursorLine
        emptyAcc == [out |-> Append(acc.out, [cells |-> BlankRow(c), wrapped |-> FALSE]),
                     found |-> acc.found \/ hit,
                     row |-> IF hit THEN Len(acc.out) ELSE acc.row,
                     col |-> IF hit THEN 0 ELSE acc.col]
    IN  IF k > Len(logLines) THEN acc
        ELSE IF Len(line) = 0 THEN rewrap(emptyAcc, logLines, k + 1, cur, c)
        ELSE rewrap(wrapLine(acc, line, 0, isCursorLine, cur[2], c), logLines, k + 1, cur, c)

\* step 5 without the two adjustments that keep the cursor row on screen
screenStartOf_bottomRows(totalRows, newCurRow, r) == Max(totalRows - r, 0)

\* step 5: the first re-wrapped row (0-based) shown in the live grid
screenStartOf(totalRows, newCurRow, r) ==
    LET s0 == Max(totalRows - r, 0)
        s1 == IF newCurRow < s0 THEN newCurRow ELSE s0
    IN  IF newCurRow >= s1 + r THEN newCurRow - r + 1 ELSE s1

\* step 5 and the cursor adjustment: split the re-wrapped rows `out` into
\* scrollback and screen around the cursor row newCurRow
splitRewrapped(t, r, c, out, newCurRow, newCurCol) ==
    LET totalRows == Len(out)
        screenStart == screenStartOf(Len(out), newCurRow, r)
    IN  IF screenStart > totalRows THEN Panic(t)
        ELSE
        [t EXCEPT
           !.scrollback = SubSeq(out, 1, screenStart),
           !.cells = AsSeq([i \in 1..r |-> IF screenStart + i <= totalRows
                                     THEN out[screenStart + i].cells
                                     ELSE BlankRow(c)]),
           !.wrapped = AsSeq([i \in 1..r |-> IF screenStart + i <= totalRows
                                       THEN out[screenStart + i].wrapped
                                       ELSE FALSE]),
           !.curRow = Max(0, Min(newCurRow - screenStart, r - 1)),
           !.curCol = Max(0, Min(newCurCol, c - 1))]

\* the cursor of the re-wrapped rows: where step 4 found it, else the last row
placeCursor(t, r, c, acc) ==
    splitRewrapped(t, r, c, acc.out,
                   IF acc.found THEN acc.row ELSE Max(Len(acc.out) - 1, 0),
                   IF acc.found THEN acc.col ELSE 0)

\* steps 2 to 5 on the rows `input`
reflowFrom(t, r, c, input) ==
    placeCursor(t, r, c,
                rewrap([out |-> <<>>, found |-> FALSE, row |-> 0, col |-> 0],
                       buildLogicalLines(input, <<>>), 1,
                       cursorLogical(t, input, 1, 0, 0), c))

resizeWithReflow(t, r, c, oldRows, oldCols) ==
    reflowFrom(t, r, c, reflowInput(t, liveRowCount(t, oldRows)))

\* the end of Resize with the scroll position kept as it was
finishResize_offsetKept(t, oldViewOffset, r, c) ==
    LET t3 == [t EXCEPT !.viewOffset = oldViewOffset]
    IN  IF t.panicked THEN t
        ELSE [t3 EXCEPT !.curRow = IF t.curRow >= r THEN r - 1 ELSE t.curRow,
                        !.curCol = IF t.curCol >= c THEN c - 1 ELSE t.curCol]

\* the end of Resize: keep the scroll position, clamp the cursor
finishResize(t, oldViewOffset, r, c) ==
    LET t3 == IF oldViewOffset > 0
              THEN [t EXCEPT !.viewOffset = Min(oldViewOffset, Len(t.scrollback) + t.rows)]
              ELSE t
    IN  IF t.panicked THEN t
        ELSE [t3 EXCEPT !.curRow = IF t.curRow >= r THEN r - 1 ELSE t.curRow,
                        !.curCol = IF t.curCol >= c THEN c - 1 ELSE t.curCol]

\* the head of Resize: the new size, the full scroll region
setSize(t, r, c) ==
    [t EXCEPT !.rows = r, !.cols = c, !.scrollTop = 0, !.scrollBot = r - 1,
              !.altEntry = IF t.altActive
                           THEN [t.altEntry EXCEPT !.resized = TRUE]
                           ELSE t.altEntry]

Resize(t, r, c) ==
    IF t.panicked \/ (t.rows = r /\ t.cols = c) THEN t
    ELSE finishResize(IF t.altActive
                      THEN resizeSimple(setSize(t, r, c), r, c, t.rows, t.cols)
                      ELSE resizeWithReflow(setSize(t, r, c), r, c, t.rows, t.cols),
                      t.viewOffset, r, c)

(***************************************************************************)
(* The inputs of the model: output chunks and sizes.                       *)
(***************************************************************************)
\* the bytes of a sequence of one-character strings
Bytes(chars) == AsSeq([k \in 1..Len(chars) |-> Byte(chars[k])])

\* ESC [ params final
CSISeq(params, final) == <<ESC, Byte("[")>> \o Bytes(params) \o <<Byte(final)>>

\* ESC [ ? N h and ESC [ ? N l for the alternate-screen modes
SetMode(digits) == CSISeq(<<"?">> \o digits, "h")
ResetMode(digits) == CSISeq(<<"?">> \o digits, "l")

AltModes == {<<"4", "7">>, <<"1", "0", "4", "7">>, <<"1", "0", "4", "9">>}

\* the chunks a child process writes in the behaviours of Spec
Chunks ==
    { <<Byte("A")>>, <<LF>>,
      CSISeq(<<>>, "H"),
      SetMode(<<"1", "0", "4", "9">>), ResetMode(<<"1", "0", "4", "9">>),
      CSISeq(<<"1">>, "K"),
      CSISeq(<<"9">>, "r") }

\* the sizes NewTerminal and Resize are called with: the callers pass
\* rows >= 1 and cols >= 1 (part_003:329, part_003:948, git.go:1299)
Sizes == (1..MaxRows) \X (1..MaxCols)

(***************************************************************************)
(* Actions.                                                                *)
(***************************************************************************)
\* the selection of a new terminal: all zero
NoSelection ==
    [startRow |-> 0, startCol |-> 0, endRow |-> 0, endCol |-> 0, selecting |-> FALSE]

\* the fields of a new terminal outside T, and an empty history
InitOps ==
    /\ lastOp = Nil /\ sel = NoSelection /\ focused = FALSE
    /\ clipboard = <<>> /\ unlocked = {}

\* the reader goroutine as NewTerminal starts it, an empty event queue, the event
\* loop running
InitIO ==
    /\ ptyBuf = <<>> /\ inHand = <<>> /\ readerPC = "read" /\ queue = <<>>
    /\ consumed = <<>> /\ readLog = <<>>
    /\ ptyClosed = FALSE /\ childKilled = FALSE /\ loopPC = "run"

\* NewTabBar: no tabs, the zero values of Active, scrollOff and w
NewTabBar ==
    /\ Tabs = <<>> /\ Active = 0 /\ scrollOff = 0 /\ tbW = 0

Init ==
    /\ \E sz \in Sizes : Becomes0(NewTerminal(sz[1], sz[2]))
    /\ steps = 0
    /\ InitOps /\ InitIO /\ NewTabBar

\* the event loop hands a TermOutputEvent's bytes to ProcessOutput
OutputEvent(data) ==
    /\ ~panicked
    /\ steps < MaxSteps
    /\ Becomes(ProcessOutput(T, data))
    /\ steps' = steps + 1
    /\ UNCHANGED <<opVars, ioVars, tbVars>>

\* the event loop calls Resize with a size other than the current one
ResizeEvent(r, c) ==
    /\ ~panicked
    /\ steps < MaxSteps
    /\ <<r, c>> # <<rows, cols>>
    /\ Becomes(Resize(T, r, c))
    /\ steps' = steps + 1
    /\ UNCHANGED <<opVars, ioVars, tbVars>>

Next ==
    \/ \E data \in Chunks : OutputEvent(data)
    \/ \E sz \in Sizes : ResizeEvent(sz[1], sz[2])

Spec == Init /\ [][Next]_vars

(***************************************************************************)
(* The event loop's handlers with their inputs recorded (part_003:316-343):*)
(* output chunks of whole sequences, and EventResize with any layout.      *)
(***************************************************************************)
MaxFeeds == 4

\* escape sequences the parser has no case for: ESC c, CSI 5 Z, CSI ? 7 h
UnknownSeqs ==
    { <<ESC, Byte("c")>>, CSISeq(<<"5">>, "Z"), SetMode(<<"7">>) }

\* the chunks a child process writes in the behaviours of SpecParser
ParserChunks ==
    { <<Byte("A")>>, <<CR, LF>>, CSISeq(<<"2">>, "J") } \cup UnknownSeqs

\* <<termW, termH>> as termLayout may report them to the EventResize handler:
\* no width, a negative width, no height, one row of height, and valid ones
Layouts ==
    { <<0, 2>>, <<-1, 2>>, <<1, 0>>, <<1, 1>>, <<1, 3>>, <<MaxCols, MaxRows + 1>> }

\* the guard with its test of the height lost
validLayout_widthOnly(termW, termH) == termW > 0

\* the guard of the EventResize handler
validLayout(termW, termH) == termW > 0 /\ termH > 1

\* case *ui.TermOutputEvent, the chunk recorded
Feed(data) ==
    /\ ~panicked
    /\ steps < MaxFeeds
    /\ Becomes(ProcessOutput(T, data))
    /\ steps' = steps + 1
    /\ lastOp' = <<"output", data>>
    /\ UNCHANGED <<sel, focused, clipboard, unlocked, ioVars, tbVars>>

\* case *tcell.EventResize: Resize(termH-1, termW) when the layout is valid,
\* nothing otherwise; the requested rows and cols recorded
LayoutEvent(termW, termH) ==
    /\ ~panicked
    /\ steps < MaxFeeds
    /\ IF validLayout(termW, termH)
       THEN Becomes(Resize(T, termH - 1, termW))
       ELSE Becomes(T)
    /\ steps' = steps + 1
    /\ lastOp' = <<"resize", termH - 1, termW>>
    /\ UNCHANGED <<sel, focused, clipboard, unlocked, ioVars, tbVars>>

NextParser ==
    \/ \E data \in ParserChunks : Feed(data)
    \/ \E l \in Layouts : LayoutEvent(l[1], l[2])

SpecParser == Init /\ [][NextParser]_vars

(***************************************************************************)
(* The reader goroutine (tabbar.go:541-557), the screen's event queue, the *)
(* event loop that consumes it (part_003:303-343) and the shutdown that    *)
(* follows the loop (part_003:345-360).  The queue is the buffered channel *)
(* of the screen: PostEventWait sends to it and blocks while it is full,   *)
(* PollEvent receives from it and blocks while it is empty.                *)
(***************************************************************************)
MaxWritten == 3
QueueCap == 2
BufSize == 2

\* the bytes the child writes in the behaviours of SpecReader
ChildBytes == {Byte("A"), LF}

OutputEv(data) == [kind |-> "output", data |-> data]
KeyEv == [kind |-> "key", data |-> <<>>]

RECURSIVE Flatten(_)
\* the bytes of the output events of queue q, in order
Flatten(q) == IF q = <<>> THEN <<>> ELSE Head(q).data \o Flatten(Tail(q))

ioRest == <<steps, opVars, tbVars>>

\* the child process writes one byte to its side of the PTY
ChildWrite(b) ==
    /\ ~childKilled
    /\ Len(readLog) + Len(ptyBuf) < MaxWritten
    /\ ptyBuf' = Append(ptyBuf, b)
    /\ UNCHANGED <<tvars, ioRest, inHand, readerPC, queue, consumed, readLog,
                   ptyClosed, childKilled, loopPC>>

\* PostEvent semantics under the reader: a chunk that finds the queue full
\* is dropped
ReaderPost_dropWhenFull ==
    /\ readerPC = "post"
    /\ queue' = IF Len(queue) < QueueCap THEN Append(queue, OutputEv(inHand)) ELSE queue
    /\ inHand' = <<>>
    /\ readerPC' = "read"
    /\ UNCHANGED <<tvars, ioRest, ptyBuf, consumed, readLog, ptyClosed, childKilled, loopPC>>

\* n, err := ptmx.Read(buf) with err == nil: up to len(buf) of the waiting
\* bytes are taken and copied into data
ReaderRead ==
    /\ readerPC = "read"
    /\ ~ptyClosed
    /\ ptyBuf # <<>>
    /\ \E n \in 1..BufSize :
          /\ n <= Len(ptyBuf)
          /\ inHand' = SubSeq(ptyBuf, 1, n)
          /\ readLog' = readLog \o SubSeq(ptyBuf, 1, n)
          /\ ptyBuf' = SubSeq(ptyBuf, n + 1, Len(ptyBuf))
    /\ readerPC' = "post"
    /\ UNCHANGED <<tvars, ioRest, queue, consumed, ptyClosed, childKilled, loopPC>>

\* ptmx.Read fails, on a closed file or when the child is gone and nothing
\* is left to read: the goroutine returns
ReaderReadFail ==
    /\ readerPC = "read"
    /\ ptyClosed \/ (childKilled /\ ptyBuf = <<>>)
    /\ readerPC' = "done"
    /\ UNCHANGED <<tvars, ioRest, ptyBuf, inHand, queue, consumed, readLog,
                   ptyClosed, childKilled, loopPC>>

\* screen.PostEventWait(ev): a send that waits for room in the queue
ReaderPost ==
    /\ readerPC = "post"
    /\ Len(queue) < QueueCap
    /\ queue' = Append(queue, OutputEv(inHand))
    /\ inHand' = <<>>
    /\ readerPC' = "read"
    /\ UNCHANGED <<tvars, ioRest, ptyBuf, consumed, readLog, ptyClosed, childKilled, loopPC>>

\* the screen posts a key event of its own (non-blocking: none when full)
PostKey ==
    /\ loopPC = "run"
    /\ Len(queue) < QueueCap
    /\ queue' = Append(queue, KeyEv)
    /\ UNCHANGED <<tvars, ioRest, ptyBuf, inHand, readerPC, consumed, readLog,
                   ptyClosed, childKilled, loopPC>>

\* ev := screen.PollEvent(); case *ui.TermOutputEvent: ProcessOutput(ev.Data)
LoopOutput ==
    /\ loopPC = "run"
    /\ ~panicked
    /\ queue # <<>>
    /\ Head(queue).kind = "output"
    /\ Becomes(ProcessOutput(T, Head(queue).data))
    /\ consumed' = consumed \o Head(queue).data
    /\ queue' = Tail(queue)
    /\ UNCHANGED <<ioRest, ptyBuf, inHand, readerPC, readLog, ptyClosed, childKilled, loopPC>>

\* ev := screen.PollEvent(); case *tcell.EventKey: the key is handled, and
\* when it is the quit key e.quit is set and the loop ends
LoopKey(quit) ==
    /\ loopPC = "run"
    /\ queue # <<>>
    /\ Head(queue).kind = "key"
    /\ queue' = Tail(queue)
    /\ loopPC' = IF quit THEN "quit" ELSE "run"
    /\ UNCHANGED <<tvars, ioRest, ptyBuf, inHand, readerPC, consumed, readLog,
                   ptyClosed, childKilled>>

\* e.terminal.Close() after the loop: ptyFile.Close(), Process.Kill(), Wait()
Close ==
    /\ loopPC = "quit"
    /\ ptyClosed' = TRUE
    /\ childKilled' = TRUE
    /\ loopPC' = "closed"
    /\ UNCHANGED <<tvars, ioRest, ptyBuf, inHand, readerPC, queue, consumed, readLog>>

Reader == ReaderRead \/ ReaderReadFail \/ ReaderPost

\* screen.PollEvent() returns the event at the head of the queue
Poll == loopPC = "run" /\ ~panicked /\ queue # <<>> /\ queue' = Tail(queue)

NextReader ==
    \/ \E b \in ChildBytes : ChildWrite(b)
    \/ ReaderRead
    \/ ReaderReadFail
    \/ ReaderPost
    \/ PostKey
    \/ LoopOutput
    \/ \E quit \in BOOLEAN : LoopKey(quit)
    \/ Close

SpecReader == Init /\ [][NextReader]_vars

\* the goroutine is scheduled whenever it can take a step, the event loop
\* takes the next event whenever there is one, and the shutdown runs once the
\* loop has ended; nothing is assumed of the child or the keyboard
SpecReaderFair ==
    /\ Init /\ [][NextReader]_vars
    /\ WF_vars(Reader)
    /\ WF_queue(Poll)
    /\ WF_vars(Close)

(***************************************************************************)
(* Properties.                                                             *)
(***************************************************************************)
\* the terminal after the set and the reset sequence of mode m, back to back
SetThenReset(m) == ProcessOutput(T, SetMode(m) \o ResetMode(m))

\* scrollback rows followed by the live rows, each with its wrapped flag
AllRows(t) ==
    t.scrollback \o AsSeq([k \in 1..Len(t.cells) |-> [cells |-> t.cells[k], wrapped |-> t.wrapped[k]]])

RECURSIVE PrintN(_, _)
\* the terminal t after n further letters have been printed, one per chunk
PrintN(t, n) == IF n = 0 THEN t ELSE ProcessOutput(PrintN(t, n - 1), <<Byte("A")>>)

RECURSIVE ConcatRows(_, _)
\* the trimmed cells of the first n rows of all, joined
ConcatRows(all, n) ==
    IF n = 0 THEN <<>>
    ELSE ConcatRows(all, n - 1) \o trimTrailingSpaces(all[n].cells)

CeilDiv(a, b) == (a + b - 1) \div b

\* C1: on the main screen the scrollback never holds more lines than its
\* capacity, whatever output and resizes came before.
C1_ScrollbackWithinCap ==
    (~altActive /\ ~panicked) => Len(scrollback) <= ScrollbackCap

\* C2: when the alternate screen is left at the dimensions it was entered
\* with, the main grid is, cell for cell, the one saved on entry, whatever
\* output and resizes happened in between.
C2_MainGridRestored ==
    [][(altActive /\ ~altActive' /\ ~panicked'
        /\ rows' = altEntry.rows /\ cols' = altEntry.cols)
       => cells' = altEntry.cells]_vars

\* C3: on the main screen, with the parser in Ground, the set sequence of
\* mode 47, 1047 or 1049 immediately followed by its reset sequence leaves
\* the grid and the cursor row and column as they were.
C3_SetResetIsIdentity ==
    (~altActive /\ ~panicked /\ state = "stateNormal") =>
        \A m \in AltModes :
            /\ SetThenReset(m).cells = cells
            /\ SetThenReset(m).curRow = curRow
            /\ SetThenReset(m).curCol = curCol

\* C4: output processing never indexes the grid, the wrap flags or the
\* scrollback out of range: no run-time panic.
C4_NoPanic == ~panicked

\* C5: the cursor is always inside the grid: 0 <= row < rows, 0 <= column < cols.
C5_CursorInBounds ==
    ~panicked => (0 <= curRow /\ curRow < rows /\ 0 <= curCol /\ curCol < cols)

\* C6: the scroll region always satisfies 0 <= top <= bottom < rows.
C6_ScrollRegionValid ==
    ~panicked => (0 <= scrollTop /\ scrollTop <= scrollBot /\ scrollBot < rows)

\* C7: the active grid has exactly rows rows of cols cells, the wrap-flag
\* vector has rows entries, and while the alternate screen is active the
\* saved main grid has the same dimensions.
C7_GridDimensions ==
    /\ Len(cells) = rows
    /\ \A i \in 1..Len(cells) : Len(cells[i]) = cols
    /\ Len(wrapped) = rows
    /\ altActive => /\ Len(mainCells) = rows
                    /\ \A i \in 1..Len(mainCells) : Len(mainCells[i]) = cols

\* C7 witness: the alternate screen is active and has been resized to a size
\* other than the one it was entered with, after output that scrolled.
C7_Witness ==
    /\ altActive /\ altEntry.resized
    /\ <<rows, cols>> # <<altEntry.rows, altEntry.cols>>
    /\ scrollback # <<>>

\* C8: on the main screen, a resize to another row count with the same
\* column count, followed by a resize back, leaves the live grid as it was.
C8_ResizeRoundTrip ==
    (~altActive /\ ~panicked) =>
        \A r \in 1..MaxRows :
            r # rows => Resize(Resize(T, r, cols), rows, cols).cells = cells

\* C9: a line of L letters printed with automatic wrapping on a fresh
\* terminal, once resized to another width c2, occupies exactly ceil(L/c2)
\* rows, all but the last marked wrapped, whose concatenation is the L letters.
C9_ReflowOfWrappedLine ==
    \A L \in 1..MaxSteps :
        (L <= cols * (rows + ScrollbackCap) /\ T = PrintN(NewTerminal(rows, cols), L)) =>
            \A c2 \in 1..MaxCols :
                c2 # cols =>
                    LET all == AllRows(Resize(T, rows, c2))
                        n == CeilDiv(L, c2)
                    IN  /\ Len(all) >= n
                        /\ \A k \in 1..(n - 1) : all[k].wrapped
                        /\ ~all[n].wrapped
                        /\ ConcatRows(all, n) = AsSeq([k \in 1..L |-> Cell(Byte("A"), StyleDefault)])
                        /\ \A k \in (n + 1)..Len(all) : trimTrailingSpaces(all[k].cells) = <<>>

\* C10: when the cursor column has reached cols on a row that is not the
\* bottom of the scroll region, printing one more character marks that row
\* wrapped and leaves the character in column 0 of the next row, the cursor
\* on that row at column 1.
C10_WrapOnOverflow ==
    (~panicked /\ state = "stateNormal" /\ curCol = cols /\ curRow # scrollBot) =>
        LET t2 == ProcessOutput(T, <<Byte("B")>>)
        IN  /\ t2.wrapped[curRow + 1]
            /\ t2.curRow = curRow + 1
            /\ t2.curCol = 1
            /\ t2.cells[curRow + 2][1] = Cell(Byte("B"), curStyle)

\* C13: while the alternate screen is active the scrollback is, line for line,
\* the one it was when the alternate screen was entered, whatever output and
\* resizes have happened since.
C13_AltKeepsScrollback ==
    altActive => scrollback = altEntry.scrollback

\* C13 witness: the alternate screen is active over a full scrollback, has
\* been resized and shows printed output.
C13_Witness ==
    /\ altActive /\ ~panicked
    /\ Len(scrollback) = ScrollbackCap
    /\ altEntry.resized
    /\ cells # BlankGrid(rows, cols)

(***************************************************************************)
(* The operations of the user on the terminal: keys, paste, mouse and copy *)
(* (tabbar.go:1653-1980), next to the output of the child.  The separator  *)
(* line is row t.y of the screen and the grid starts one row below; Render *)
(* stores that layout before every event (part_003:306, tabbar.go:1534).   *)
(***************************************************************************)
MaxOps == 4

\* the rows and cols of the terminal in the behaviours of SpecOps
OpsSizes == {<<2, 3>>}

\* what the system clipboard may hold when the terminal starts
OldClipboards == {<<>>, <<Byte("B")>>}

\* the chunks of the child: two letters, a line feed, DECCKM, bracketed paste
OpsChunks ==
    { <<Byte("A"), Byte("A")>>, <<LF>>, SetMode(<<"1">>), SetMode(<<"2", "0", "0", "4">>) }

Keys == {"Up", "Enter", "ShiftPgUp", "ShiftPgDn"}

\* t.x, t.y and t.h as Render stored them for a terminal of r rows
Layout(r) == [x |-> 0, y |-> 0, h |-> r + 1]

\* <<mx, my>> of the mouse events: the columns of the terminal, and the
\* rows from the separator line to the row below the terminal
MousePos ==
    UNION { (0..(sz[2] - 1)) \X (0..(sz[1] + 1)) : sz \in OpsSizes }

\* hasSelection taken from the drag in progress, not from the endpoints
hasSelection_whileSelecting(s) == s.selecting

hasSelection(s) == s.startRow # s.endRow \/ s.startCol # s.endCol

\* normalizedSelection that orders the endpoints by row only
normalizedSelection_rowOnly(s) ==
    IF ~hasSelection(s) THEN [sr |-> 0, sc |-> 0, er |-> 0, ec |-> 0, ok |-> FALSE]
    ELSE IF s.endRow < s.startRow
    THEN [sr |-> s.endRow, sc |-> s.endCol, er |-> s.startRow, ec |-> s.startCol, ok |-> TRUE]
    ELSE [sr |-> s.startRow, sc |-> s.startCol, er |-> s.endRow, ec |-> s.endCol, ok |-> TRUE]

normalizedSelection(s) ==
    IF ~hasSelection(s) THEN [sr |-> 0, sc |-> 0, er |-> 0, ec |-> 0, ok |-> FALSE]
    ELSE IF s.endRow < s.startRow \/ (s.endRow = s.startRow /\ s.endCol < s.startCol)
    THEN [sr |-> s.endRow, sc |-> s.endCol, er |-> s.startRow, ec |-> s.startCol, ok |-> TRUE]
    ELSE [sr |-> s.startRow, sc |-> s.startCol, er |-> s.endRow, ec |-> s.endCol, ok |-> TRUE]

\* <<row, col, ok>> of the content under the mouse
mouseToContent(t, mx, my) ==
    LET lay == Layout(t.rows)
        renderRows == Min(t.rows, lay.h - 1)
        row == my - (lay.y + 1)
        col == Max(0, Min(mx - lay.x, t.cols - 1))
    IN  IF t.cols <= 0 THEN <<0, 0, FALSE>>
        ELSE IF row < 0 \/ row >= renderRows THEN <<0, 0, FALSE>>
        ELSE IF t.viewOffset > 0 /\ ~t.altActive
        THEN IF Len(t.scrollback) - t.viewOffset + row < 0 THEN <<0, 0, FALSE>>
             ELSE <<Len(t.scrollback) - t.viewOffset + row, col, TRUE>>
        ELSE <<Len(t.scrollback) + row, col, TRUE>>

\* the ok result of contentRowCells: content row `row` (0-based) exists
hasContentRow(t, row) ==
    row >= 0 /\ (row < Len(t.scrollback) \/ row - Len(t.scrollback) < t.rows)

\* the cells of content row `row`: of the scrollback first, then of the grid
contentRowCells(t, row) ==
    IF ~hasContentRow(t, row) THEN Nil
    ELSE IF row < Len(t.scrollback) THEN t.scrollback[row + 1].cells
    ELSE t.cells[row - Len(t.scrollback) + 1]

RECURSIVE trimRightSpaces(_)
\* strings.TrimRight(line, " ") on the runes of line
trimRightSpaces(line) ==
    IF line # <<>> /\ line[Len(line)] = SPACE
    THEN trimRightSpaces(SubSeq(line, 1, Len(line) - 1))
    ELSE line

\* the runes of the cells at the 0-based columns start .. end-1
runesOf(cs, start, end) ==
    AsSeq([k \in 1..(end - start) |-> cs[start + k].Ch])

\* the text of one row of the selection with the end column left out
rowText_endExclusive(cs, n, row) ==
    LET start == Max(0, IF row = n.sr THEN n.sc ELSE 0)
        end == Min(Len(cs), IF row = n.er THEN n.ec ELSE Len(cs))
    IN  trimRightSpaces(runesOf(cs, Min(start, end), end))

\* the slice bounds with the clamp of end to the row length left out
sliceBounds_noEndClamp(cs, n, row) ==
    LET start == Max(0, IF row = n.sr THEN n.sc ELSE 0)
        end == IF row = n.er THEN n.ec + 1 ELSE Len(cs)
    IN  <<Min(start, end), end>>

\* <<start, end>> of cells[start:end] for one row of the selection n, after
\* the three clamps of CopySelection
sliceBounds(cs, n, row) ==
    LET start == Max(0, IF row = n.sr THEN n.sc ELSE 0)
        end == Min(Len(cs), IF row = n.er THEN n.ec + 1 ELSE Len(cs))
    IN  <<Min(start, end), end>>

\* the range check of the slice expression cells[b[1]:b[2]]
sliceOK(cs, b) == 0 <= b[1] /\ b[1] <= b[2] /\ b[2] <= Len(cs)

\* the text of one row of the selection n: its columns from start to end-1,
\* both clamped to the row, trailing spaces cut
rowText(cs, n, row) ==
    trimRightSpaces(runesOf(cs, sliceBounds(cs, n, row)[1], sliceBounds(cs, n, row)[2]))

\* some row of the selection n is sliced outside its length
copyPanics(t, n) ==
    \E row \in n.sr..n.er :
        /\ hasContentRow(t, row)
        /\ ~sliceOK(contentRowCells(t, row), sliceBounds(contentRowCells(t, row), n, row))

\* selectionStyle: the cell at content (row, col) is drawn reversed
selectionStyle(s, row, col) ==
    LET n == normalizedSelection(s)
    IN  /\ n.ok
        /\ ~(row < n.sr \/ row > n.er)
        /\ ~(row = n.sr /\ col < n.sc)
        /\ ~(row = n.er /\ col > n.ec)

RECURSIVE copyRows(_, _, _)
\* the loop of CopySelection from content row `row` on
copyRows(t, n, row) ==
    IF row > n.er THEN <<>>
    ELSE IF ~hasContentRow(t, row) THEN copyRows(t, n, row + 1)
    ELSE rowText(contentRowCells(t, row), n, row)
           \o (IF row < n.er THEN <<LF>> ELSE <<>>)
           \o copyRows(t, n, row + 1)

\* the text CopySelection builds for selection s
selectionText(t, s) ==
    IF normalizedSelection(s).ok
    THEN copyRows(t, normalizedSelection(s), normalizedSelection(s).sr)
    ELSE <<>>

\* the result of CopySelection: something was copied
copyReturns(t, s) == normalizedSelection(s).ok /\ selectionText(t, s) # <<>>

opsRest == <<ioVars, tbVars>>

\* e.updateFocus: SetFocused(f)
SetFocused(f) ==
    /\ steps < MaxOps
    /\ steps' = steps + 1
    /\ lastOp' = <<"focus">>
    /\ focused' = f
    /\ UNCHANGED <<tvars, opsRest, sel, clipboard, unlocked>>

\* the child's output processed by the event loop
OpsOutput(data) ==
    /\ ~panicked
    /\ steps < MaxOps
    /\ steps' = steps + 1
    /\ lastOp' = <<"output">>
    /\ Becomes(ProcessOutput(T, data))
    /\ UNCHANGED <<opsRest, sel, focused, clipboard, unlocked>>

\* the bytes HandleKey sends for a key; the arrow keys read t.appCursorKeys
keyBytes(t, key) ==
    CASE key = "Enter" -> <<CR>>
      [] key = "Up" -> IF t.appCursorKeys THEN <<ESC, Byte("O"), Byte("A")>>
                       ELSE <<ESC, Byte("["), Byte("A")>>

\* HandleKey: nothing without focus; Shift+PgUp and Shift+PgDn move the view
\* between t.mu.Lock() and t.mu.Unlock(); the other keys are translated, the
\* arrow keys by t.appCursorKeys read with the mutex not held, and written
HandleKey(key) ==
    /\ steps < MaxOps
    /\ steps' = steps + 1
    /\ lastOp' = <<"key">>
    /\ IF ~focused
       THEN UNCHANGED <<tvars, unlocked>>
       ELSE CASE key = "ShiftPgUp" ->
                   /\ Becomes([T EXCEPT !.viewOffset =
                                  Min(viewOffset + rows, Len(scrollback) + rows)])
                   /\ UNCHANGED unlocked
              [] key = "ShiftPgDn" ->
                   /\ Becomes([T EXCEPT !.viewOffset = Max(viewOffset - rows, 0)])
                   /\ UNCHANGED unlocked
              [] OTHER ->
                   /\ Becomes([T EXCEPT !.ptyOut = ptyOut \o keyBytes(T, key)])
                   /\ unlocked' = IF key = "Up" THEN unlocked \cup {"appCursorKeys"}
                                  ELSE unlocked
    /\ UNCHANGED <<opsRest, sel, focused, clipboard>>

\* WritePaste: t.bracketedPaste is read with the mutex not held
WritePaste(text) ==
    /\ steps < MaxOps
    /\ steps' = steps + 1
    /\ lastOp' = <<"paste">>
    /\ Becomes([T EXCEPT !.ptyOut =
                   IF bracketedPaste
                   THEN ptyOut \o CSISeq(<<"2", "0", "0">>, "~") \o text
                               \o CSISeq(<<"2", "0", "1">>, "~")
                   ELSE ptyOut \o text])
    /\ unlocked' = unlocked \cup {"bracketedPaste"}
    /\ UNCHANGED <<opsRest, sel, focused, clipboard>>

\* the selection after a Button1 event at content position p
pressAt(s, p) ==
    IF ~p[3] THEN s
    ELSE IF ~s.selecting
    THEN [startRow |-> p[1], startCol |-> p[2], endRow |-> p[1], endCol |-> p[2],
          selecting |-> TRUE]
    ELSE [s EXCEPT !.endRow = p[1], !.endCol = p[2]]

\* HandleMouse: events outside rows t.y .. t.y+t.h-1 are not the terminal's;
\* the wheel moves the view, Button1 starts or extends the selection, the
\* release ends it, each between t.mu.Lock() and t.mu.Unlock()
HandleMouse(btn, mx, my) ==
    /\ steps < MaxOps
    /\ steps' = steps + 1
    /\ lastOp' = <<"mouse">>
    /\ IF my < Layout(rows).y \/ my >= Layout(rows).y + Layout(rows).h
       THEN UNCHANGED <<tvars, sel>>
       ELSE CASE btn = "WheelUp" ->
                   /\ Becomes(IF altActive THEN T
                              ELSE [T EXCEPT !.viewOffset =
                                      Min(viewOffset + 3, Len(scrollback) + rows)])
                   /\ UNCHANGED sel
              [] btn = "WheelDown" ->
                   /\ Becomes([T EXCEPT !.viewOffset = Max(viewOffset - 3, 0)])
                   /\ UNCHANGED sel
              [] btn = "Button1" ->
                   /\ sel' = pressAt(sel, mouseToContent(T, mx, my))
                   /\ UNCHANGED tvars
              [] btn = "ButtonNone" ->
                   /\ sel' = [sel EXCEPT !.selecting = FALSE]
                   /\ UNCHANGED tvars
    /\ UNCHANGED <<opsRest, focused, clipboard, unlocked>>

\* CopySelection: under the mutex; an empty text is not copied
CopySelection ==
    /\ ~panicked
    /\ steps < MaxOps
    /\ steps' = steps + 1
    /\ lastOp' = <<"copy">>
    /\ IF normalizedSelection(sel).ok /\ copyPanics(T, normalizedSelection(sel))
       THEN Becomes(Panic(T)) /\ UNCHANGED clipboard
       ELSE /\ clipboard' = IF selectionText(T, sel) = <<>> THEN clipboard
                            ELSE selectionText(T, sel)
            /\ UNCHANGED tvars
    /\ UNCHANGED <<opsRest, sel, focused, unlocked>>

InitOpsSpec ==
    /\ \E sz \in OpsSizes : Becomes0(NewTerminal(sz[1], sz[2]))
    /\ steps = 0
    /\ lastOp = Nil /\ sel = NoSelection /\ focused = FALSE
    /\ clipboard \in OldClipboards /\ unlocked = {}
    /\ InitIO /\ NewTabBar

NextOps ==
    \/ \E f \in BOOLEAN : SetFocused(f)
    \/ \E data \in OpsChunks : OpsOutput(data)
    \/ \E key \in Keys : HandleKey(key)
    \/ WritePaste(<<Byte("A")>>)
    \/ \E p \in MousePos : HandleMouse("Button1", p[1], p[2])
    \/ \E btn \in {"WheelUp", "WheelDown", "ButtonNone"} : HandleMouse(btn, 0, 1)
    \/ CopySelection

SpecOps == InitOpsSpec /\ [][NextOps]_vars

(***************************************************************************)
(* Paste: bracketed paste mode and WritePaste (tabbar.go:1335-1336,        *)
(* 1790-1799).                                                             *)
(***************************************************************************)
\* the chunks of the child in the behaviours of SpecPaste: text, mode 2004
\* set and reset, alone and after another mode in the same sequence
PasteChunks ==
    { <<Byte("A")>>,
      SetMode(<<"2", "0", "0", "4">>), ResetMode(<<"2", "0", "0", "4">>),
      SetMode(<<"1", ";", "2", "0", "0", "4">>),
      ResetMode(<<"2", "5", ";", "2", "0", "0", "4">>) }

\* what a chunk of PasteChunks says about mode 2004
pasteModeOf(data) ==
    IF data \in { SetMode(<<"2", "0", "0", "4">>),
                  SetMode(<<"1", ";", "2", "0", "0", "4">>) } THEN "set"
    ELSE IF data \in { ResetMode(<<"2", "0", "0", "4">>),
                       ResetMode(<<"2", "5", ";", "2", "0", "0", "4">>) } THEN "reset"
    ELSE "none"

PasteTexts == { <<Byte("A")>>, <<Byte("A"), LF>> }

NextPaste ==
    \/ \E f \in BOOLEAN : SetFocused(f)
    \/ \E data \in PasteChunks : OpsOutput(data)
    \/ \E key \in {"Up", "Enter"} : HandleKey(key)
    \/ \E text \in PasteTexts : WritePaste(text)

SpecPaste == InitOpsSpec /\ [][NextPaste]_vars

(***************************************************************************)
(* Styled output: SGR sequences and printed cells (tabbar.go:1395-1459).   *)
(***************************************************************************)
\* SGR parameters with a case in processSGR: bold, red foreground, reset,
\* and the palette foreground 38;5;3 with its two arguments
ListedParams ==
    { <<"1">>, <<"3", "1">>, <<"0">>, <<"3", "8", ";", "5", ";", "3">> }

\* SGR parameters with no case: blink, underline colour, and the underline
\* style 4:3 written with a sub-parameter
UnlistedParams == { <<"5">>, <<"5", "8">>, <<"4", ":", "3">> }

\* the chunks of the child in the behaviours of SpecStyle
StyleChunks ==
    { <<Byte("A")>>,
      CSISeq(<<"1", ";", "3", "1">>, "m"),
      CSISeq(<<"0">>, "m"),
      CSISeq(<<"1", ";", "5", ";", "3", "1">>, "m"),
      CSISeq(<<"4", ":", "3">>, "m") }

NextStyle == \E data \in StyleChunks : Feed(data)

SpecStyle == Init /\ [][NextStyle]_vars

(***************************************************************************)
(* Selection under resize: the mouse selects, the layout changes, and the  *)
(* selection made before is copied and drawn (tabbar.go:1530-1651,         *)
(* 1801-1930).                                                             *)
(***************************************************************************)
\* the chunks of the child in the behaviours of SpecSelect
SelChunks == { <<Byte("A"), Byte("A")>>, <<LF>> }

\* the rows and cols the layout changes to
SelSizes == { <<1, 1>>, <<2, 1>>, <<2, 2>> }

\* <<mx, my>> of the presses: the first and the last cell of the first row
\* and the last cell of the second row of the initial layout
SelPos == { <<0, 1>>, <<2, 1>>, <<2, 2>> }

\* Resize from the layout handlers, with a selection in place
ResizeOp(r, c) ==
    /\ ~panicked
    /\ steps < MaxOps
    /\ steps' = steps + 1
    /\ lastOp' = <<"resize">>
    /\ Becomes(Resize(T, r, c))
    /\ UNCHANGED <<opsRest, sel, focused, clipboard, unlocked>>

\* Render reads a cell outside the grid: t.cells[liveRow][col] in scrollback
\* mode, t.cells[row][col] in live mode, for col < t.cols and col < width.
\* Scrollback rows are read under col < len(sbRow); the selection is only
\* compared with (selectionStyle), never used as an index.
renderPanics(t) ==
    LET renderRows == Min(t.rows, Layout(t.rows).h - 1)
        sbLen == Len(t.scrollback)
        misses(liveRow) ==
            t.cols > 0 /\ (liveRow >= Len(t.cells) \/ t.cols > Len(t.cells[liveRow + 1]))
    IN  IF t.viewOffset > 0 /\ ~t.altActive
        THEN \E row \in 0..(renderRows - 1) :
                /\ sbLen - t.viewOffset + row >= sbLen
                /\ sbLen - t.viewOffset + row - sbLen < t.rows
                /\ misses(sbLen - t.viewOffset + row - sbLen)
        ELSE \E row \in 0..(renderRows - 1) : misses(row)

\* e.render(): Terminal.Render draws the view with the selection reversed
RenderOp ==
    /\ ~panicked
    /\ steps < MaxOps
    /\ steps' = steps + 1
    /\ lastOp' = <<"render">>
    /\ Becomes(IF renderPanics(T) THEN Panic(T) ELSE T)
    /\ UNCHANGED <<opsRest, sel, focused, clipboard, unlocked>>

NextSelect ==
    \/ \E data \in SelChunks : OpsOutput(data)
    \/ \E sz \in SelSizes : ResizeOp(sz[1], sz[2])
    \/ \E p \in SelPos : HandleMouse("Button1", p[1], p[2])
    \/ \E btn \in {"WheelUp", "ButtonNone"} : HandleMouse(btn, 0, 1)
    \/ CopySelection
    \/ RenderOp

SpecSelect == InitOpsSpec /\ [][NextSelect]_vars

\* the printable strings of fewer than n characters over the letters A and B
Strings(n) ==
    UNION { [1..k -> {Byte("A"), Byte("B")}] : k \in 0..(n - 1) }

\* the default-styled cells of the characters of s
CellsOf(s) == AsSeq([k \in 1..Len(s) |-> Cell(s[k], StyleDefault)])

\* C11: on a fresh terminal of at least two rows, s1 CR LF s2 with both
\* strings shorter than cols leaves s1 on row 0, s2 on row 1 and neither row
\* marked wrapped.
C11_CRLFSeparatesRows ==
    (steps = 0 /\ rows >= 2) =>
        \A s1 \in Strings(cols) : \A s2 \in Strings(cols) :
            LET t2 == ProcessOutput(T, AsSeq(s1) \o <<CR, LF>> \o AsSeq(s2))
            IN  /\ trimTrailingSpaces(t2.cells[1]) = CellsOf(s1)
                /\ trimTrailingSpaces(t2.cells[2]) = CellsOf(s2)
                /\ ~t2.wrapped[1] /\ ~t2.wrapped[2]

\* C11 witness: a terminal of two rows or more that has processed A CR LF A
\* since it was created.
C11_Witness ==
    /\ rows >= 2 /\ cols >= 2 /\ steps = 3
    /\ T = ProcessOutput(NewTerminal(rows, cols), <<Byte("A"), CR, LF, Byte("A")>>)

\* C12: ESC[2J from Ground leaves every wrapped flag false, every cell a
\* default blank and the cursor where it was, and the next printed character
\* is stored at that cursor position.
C12_EraseDisplayAll ==
    (~panicked /\ state = "stateNormal") =>
        LET t2 == ProcessOutput(T, CSISeq(<<"2">>, "J"))
            t3 == ProcessOutput(t2, <<Byte("B")>>)
        IN  /\ \A i \in 1..Len(t2.wrapped) : ~t2.wrapped[i]
            /\ t2.cells = BlankGrid(rows, cols)
            /\ t2.curRow = curRow /\ t2.curCol = curCol
            /\ InRange(curRow, rows) /\ InRange(curCol, cols)
            /\ t3.cells[curRow + 1][curCol + 1] = Cell(Byte("B"), curStyle)

\* C17: a resize request with rows <= 0 or cols <= 0 changes neither the
\* dimensions nor the grid, the cursor, the scroll region or the scrollback.
C17_InvalidResizeRejected ==
    [][(lastOp' # Nil /\ lastOp'[1] = "resize" /\ (lastOp'[2] <= 0 \/ lastOp'[3] <= 0))
       => UNCHANGED <<rows, cols, cells, wrapped, curRow, curCol, scrollTop,
                      scrollBot, scrollback>>]_vars

\* C17 witness: the last request asked for no rows or no columns, of a
\* terminal that shows output.
C17_Witness ==
    /\ lastOp # Nil /\ lastOp[1] = "resize"
    /\ (lastOp[2] <= 0 \/ lastOp[3] <= 0)
    /\ cells # BlankGrid(rows, cols)

\* byte streams whose sequences may be cut by a chunk boundary: ESC ( B A,
\* the two bytes of U+00E9, an OSC title ended by ESC \, plain text, CSI 2 J
SplitStreams ==
    { <<ESC, Byte("("), Byte("B"), Byte("A")>>,
      <<195, 169>>,
      <<ESC, Byte("]"), Byte("0"), Byte(";"), Byte("A"), ESC, Byte("\\")>>,
      <<Byte("A"), CR, LF, Byte("B")>>,
      CSISeq(<<"2">>, "J") }

\* C18: cutting a byte stream into two ProcessOutput calls at any point gives
\* the same terminal as one call on the whole stream.
C18_ChunkingInvariant ==
    ~panicked =>
        \A data \in SplitStreams : \A k \in 1..(Len(data) - 1) :
            ProcessOutput(ProcessOutput(T, SubSeq(data, 1, k)),
                          SubSeq(data, k + 1, Len(data)))
                = ProcessOutput(T, data)

\* C19: an unrecognized escape sequence processed from Ground returns the
\* parser to Ground and leaves grid, wrap flags, cursor, scroll region, style,
\* mode flags and scrollback as they were.
C19_UnknownSequenceIgnored ==
    [][(lastOp' # Nil /\ lastOp'[1] = "output" /\ lastOp'[2] \in UnknownSeqs
        /\ state = "stateNormal")
       => /\ state' = "stateNormal"
          /\ UNCHANGED <<cells, wrapped, curRow, curCol, scrollTop, scrollBot,
                         curStyle, cursorHidden, appCursorKeys, bracketedPaste,
                         altActive, scrollback>>]_vars

\* C19 witness: the last chunk was an unrecognized sequence, processed by a
\* terminal that shows output.
C19_Witness ==
    /\ lastOp # Nil /\ lastOp[1] = "output" /\ lastOp[2] \in UnknownSeqs
    /\ state = "stateNormal"
    /\ cells # BlankGrid(rows, cols)

\* C14: the bytes consumed by ProcessOutput, followed by those waiting in the
\* event queue and in the reader's hand, are the bytes the reader has read
\* from the PTY, in order, none lost and none twice.
C14_NoByteLostOrReordered ==
    consumed \o Flatten(queue) \o inHand = readLog

\* C14 witness: the reader waits to post a chunk to a full queue holding an
\* output event, after the loop has consumed output.
C14_Witness ==
    /\ readerPC = "post" /\ Len(queue) = QueueCap
    /\ \E k \in 1..Len(queue) : queue[k].kind = "output"
    /\ consumed # <<>> /\ inHand # <<>>

\* C15: once Close has run the PTY is closed and the child killed, and the
\* reader goroutine eventually returns.
C15_CloseStopsReader ==
    /\ [](loopPC = "closed" => ptyClosed /\ childKilled)
    /\ (loopPC = "closed") ~> (readerPC = "done")

\* C16: no public operation reads or writes a field of the Terminal's state
\* with the mutex not held.
C16_StateAccessedUnderMutex == unlocked = {}

\* the selection is on one content row that exists, from column a to a
\* column b > a of that row
SameRowSelection ==
    /\ sel.startRow = sel.endRow /\ sel.startCol < sel.endCol
    /\ hasContentRow(T, sel.startRow)
    /\ sel.endCol < Len(contentRowCells(T, sel.startRow))

\* the runes at columns a..b of the selected row, trailing blanks removed
SelectedColumns ==
    trimRightSpaces(runesOf(contentRowCells(T, sel.startRow), sel.startCol,
                            sel.endCol + 1))

\* C20 as stated: CopySelection on a same-row selection a < b leaves on the
\* clipboard exactly the characters at columns a..b, trailing blanks removed.
C20_CopiesColumnsInclusive ==
    [][(CopySelection /\ SameRowSelection) => clipboard' = SelectedColumns]_vars

\* C20 amended: the same, for a selection that holds a non-blank character;
\* a selection of blanks only leaves the clipboard as it was.
C20_CopiesNonBlankColumns ==
    [][(CopySelection /\ SameRowSelection)
       => clipboard' = IF SelectedColumns = <<>> THEN clipboard ELSE SelectedColumns]_vars

\* C20 witness: columns 0 to 2 of a row holding AA and a blank have just
\* been copied, and the clipboard holds AA.
C20_Witness ==
    /\ lastOp = <<"copy">>
    /\ SameRowSelection
    /\ sel.startCol = 0 /\ sel.endCol = 2
    /\ contentRowCells(T, sel.startRow)[2].Ch = Byte("A")
    /\ contentRowCells(T, sel.startRow)[3].Ch = SPACE
    /\ clipboard = <<Byte("A"), Byte("A")>>

\* the selection s made the other way round
Reversed(s) ==
    [s EXCEPT !.startRow = s.endRow, !.startCol = s.endCol,
              !.endRow = s.startRow, !.endCol = s.startCol]

RECURSIVE CountLF(_)
\* the number of newlines in text
CountLF(text) ==
    IF text = <<>> THEN 0
    ELSE (IF Head(text) = LF THEN 1 ELSE 0) + CountLF(Tail(text))

\* the content positions a cell can be drawn from
ContentCells ==
    (0..(Len(scrollback) + rows - 1)) \X (0..(cols - 1))

\* C21: the selection made from P to Q and the one made from Q to P copy the
\* same text and highlight the same cells, and a copy over several rows that
\* exist has one newline for each row but the last, wrapped or not.
C21_SelectionUnordered ==
    ~panicked =>
        /\ selectionText(T, sel) = selectionText(T, Reversed(sel))
        /\ \A p \in ContentCells :
              selectionStyle(sel, p[1], p[2]) = selectionStyle(Reversed(sel), p[1], p[2])
        /\ (/\ normalizedSelection(sel).ok
            /\ hasContentRow(T, normalizedSelection(sel).er))
           => CountLF(selectionText(T, sel))
                = normalizedSelection(sel).er - normalizedSelection(sel).sr

\* C21 witness: a selection dragged from the second row back to the start
\* of the first has just been copied: AA, a newline, and the blank row.
C21_Witness ==
    /\ lastOp = <<"copy">>
    /\ sel.endRow < sel.startRow
    /\ clipboard = <<Byte("A"), Byte("A"), LF>>

\* C22: with an empty selection (start equals end, or none ever made)
\* CopySelection returns false and leaves the clipboard as it was.
C22_EmptySelectionCopiesNothing ==
    [][(lastOp' = <<"copy">> /\ ~panicked
        /\ sel.startRow = sel.endRow /\ sel.startCol = sel.endCol)
       => (~copyReturns(T, sel) /\ clipboard' = clipboard)]_vars

\* C22 witness: a copy has just run on a selection that is one click on a
\* cell holding A, and the clipboard holds what it held at the start.
C22_Witness ==
    /\ lastOp = <<"copy">>
    /\ sel.selecting
    /\ sel.startRow = sel.endRow /\ sel.startCol = sel.endCol
    /\ hasContentRow(T, sel.startRow)
    /\ contentRowCells(T, sel.startRow)[sel.startCol + 1].Ch = Byte("A")
    /\ clipboard \in OldClipboards

\* C23: neither CopySelection nor Render, run with whatever selection an
\* earlier layout left behind, indexes a scrollback line or a grid row
\* outside its length.
C23_StaleSelectionClamped ==
    [][(lastOp' = <<"copy">> \/ lastOp' = <<"render">>) => ~panicked']_vars

\* C23 witness: a copy has just run with a selection that ends on a row that
\* exists, at a column the row lost in a resize.
C23_Witness ==
    /\ lastOp = <<"copy">>
    /\ ~panicked
    /\ normalizedSelection(sel).ok
    /\ hasContentRow(T, normalizedSelection(sel).er)
    /\ normalizedSelection(sel).ec >= Len(contentRowCells(T, normalizedSelection(sel).er))

(***************************************************************************)
(* The tab bar (tabbar.go:18-353): tabs, the active tab and the horizontal *)
(* scroll offset.  Indices are 0-based as in the source.                   *)
(***************************************************************************)
MaxTabOps == 6

\* the paths the editor opens: AddTab("") is the new untitled buffer
Paths == {"", "a", "b", "main.go"}

\* the widths Render is called with: screenW - left (render.go:95)
RenderWidths == {0, 6, 14, 24}

\* the tab bar as one value
TB == [Tabs |-> Tabs, Active |-> Active, scrollOff |-> scrollOff, w |-> tbW]

TabBarBecomes(tb) ==
    /\ Tabs' = tb.Tabs /\ Active' = tb.Active
    /\ scrollOff' = tb.scrollOff /\ tbW' = tb.w

\* filepath.Base for paths without a separator
Base(path) == IF path = "" THEN "." ELSE path

tabTitle(tb, index) ==
    IF tb.Tabs[index + 1].ExternallyModified THEN "!" \o tb.Tabs[index + 1].Title
    ELSE IF tb.Tabs[index + 1].Modified THEN "*" \o tb.Tabs[index + 1].Title
    ELSE tb.Tabs[index + 1].Title

tabWidthAt(tb, index) ==
    IF index < 0 \/ index >= Len(tb.Tabs) THEN 0
    ELSE 1 + Len(tabTitle(tb, index)) + 1 + 1 + 1
           + (IF index < Len(tb.Tabs) - 1 THEN 1 ELSE 0)

clampScroll(tb) ==
    IF Len(tb.Tabs) = 0 THEN [tb EXCEPT !.scrollOff = 0]
    ELSE [tb EXCEPT !.scrollOff = Min(Max(tb.scrollOff, 0), Len(tb.Tabs) - 1)]

RECURSIVE visibleLastFrom(_, _, _, _)
\* the loop of visibleLast from tab i with the width remaining
visibleLastFrom(tb, i, remaining, last) ==
    IF i >= Len(tb.Tabs) \/ tabWidthAt(tb, i) > remaining THEN last
    ELSE visibleLastFrom(tb, i + 1, remaining - tabWidthAt(tb, i), i)

\* visibleLast that takes every tab from scrollOff on as fitting
visibleLast_allFit(tb, width) == Len(tb.Tabs) - 1

visibleLast(tb, width) ==
    IF width <= 0 \/ Len(tb.Tabs) = 0 THEN tb.scrollOff - 1
    ELSE visibleLastFrom(tb, tb.scrollOff, width, tb.scrollOff - 1)

RECURSIVE scrollToActive(_, _)
\* the loop of ensureActiveVisible
scrollToActive(tb, width) ==
    IF tb.Active <= visibleLast(tb, width) \/ tb.scrollOff >= tb.Active THEN tb
    ELSE scrollToActive([tb EXCEPT !.scrollOff = tb.scrollOff + 1], width)

ensureActiveVisible(tb0, width) ==
    LET tb == clampScroll(tb0)
    IN  IF Len(tb.Tabs) = 0 \/ width <= 0 THEN tb
        ELSE LET a == Min(Max(tb.Active, 0), Len(tb.Tabs) - 1)
                 t1 == [tb EXCEPT !.Active = a,
                                  !.scrollOff = IF a < tb.scrollOff THEN a
                                                ELSE tb.scrollOff]
             IN  clampScroll(scrollToActive(t1, width))

scrollBy(tb, delta) == clampScroll([tb EXCEPT !.scrollOff = tb.scrollOff + delta])

\* index of the tab with the path, -1 when there is none
tabIndex(tb, path) ==
    IF \E i \in 1..Len(tb.Tabs) : tb.Tabs[i].Path = path
    THEN (CHOOSE i \in 1..Len(tb.Tabs) : tb.Tabs[i].Path = path) - 1
    ELSE -1

addTab(tb, path, modified) ==
    IF tabIndex(tb, path) >= 0 THEN [tb EXCEPT !.Active = tabIndex(tb, path)]
    ELSE LET name == IF Base(path) = "." \/ Base(path) = "" THEN "untitled"
                      ELSE Base(path)
             tabs == Append(tb.Tabs, [Title |-> name, Path |-> path,
                                      Modified |-> modified,
                                      ExternallyModified |-> FALSE])
         IN  ensureActiveVisible([tb EXCEPT !.Tabs = tabs,
                                            !.Active = Len(tabs) - 1], tb.w)

removeTab(tb, index) ==
    IF index < 0 \/ index >= Len(tb.Tabs) THEN tb
    ELSE LET tabs == SubSeq(tb.Tabs, 1, index) \o
                     SubSeq(tb.Tabs, index + 2, Len(tb.Tabs))
             a1 == IF tb.Active >= Len(tabs) THEN Len(tabs) - 1 ELSE tb.Active
         IN  clampScroll([tb EXCEPT !.Tabs = tabs,
                                    !.scrollOff = IF index < tb.scrollOff
                                                  THEN tb.scrollOff - 1
                                                  ELSE tb.scrollOff,
                                    !.Active = IF a1 < 0 THEN 0 ELSE a1])

\* a step of the tab bar: the terminal and the rest stay as they are
TabBarStep(op, tb) ==
    /\ steps < MaxTabOps
    /\ steps' = steps + 1
    /\ lastOp' = op
    /\ TabBarBecomes(tb)
    /\ UNCHANGED <<tvars, sel, focused, clipboard, unlocked, ioVars>>

AddTab(path, modified) == TabBarStep(<<"AddTab">>, addTab(TB, path, modified))

RemoveTab(index) == TabBarStep(<<"RemoveTab">>, removeTab(TB, index))

SetModified(index) ==
    /\ index < Len(Tabs)
    /\ TabBarStep(<<"SetModified">>,
                  [TB EXCEPT !.Tabs[index + 1].Modified = TRUE])

\* the editor assigns the field: e.tabBar.Active = idx
SetActive(idx) == TabBarStep(<<"SetActive">>, [TB EXCEPT !.Active = idx])

\* HandleMouse with a wheel event at a position inside the bar
TabBarWheel(delta) ==
    /\ tbW > 0
    /\ TabBarStep(<<"Wheel">>, scrollBy(TB, delta))

\* Render stores the width and calls ensureActiveVisible; the drawing
\* changes no field
TabBarRender(width) ==
    TabBarStep(<<"TabBar.Render">>, ensureActiveVisible([TB EXCEPT !.w = width], width))

NextTabBar ==
    \/ \E path \in Paths : AddTab(path, FALSE)
    \/ \E index \in 0..3 : RemoveTab(index)
    \/ \E index \in 0..3 : SetModified(index)
    \/ \E idx \in -1..4 : SetActive(idx)
    \/ \E delta \in {-1, 1} : TabBarWheel(delta)
    \/ \E width \in RenderWidths : TabBarRender(width)

SpecTabBar == InitOpsSpec /\ [][NextTabBar]_vars

RECURSIVE widthFromTo(_, _, _)
\* the columns the tabs i..j take
widthFromTo(tb, i, j) ==
    IF i > j THEN 0 ELSE tabWidthAt(tb, i) + widthFromTo(tb, i + 1, j)

\* C26: after Render with width > 0 and at least one tab, Active is a tab
\* index, scrollOff <= Active, and the tabs from scrollOff to Active fit in
\* the width, or scrollOff = Active when the active tab alone does not fit.
C26_ActiveTabVisible ==
    (lastOp = <<"TabBar.Render">> /\ tbW > 0 /\ Len(Tabs) >= 1) =>
        /\ 0 <= Active /\ Active < Len(Tabs)
        /\ 0 <= scrollOff /\ scrollOff <= Active
        /\ \/ widthFromTo(TB, scrollOff, Active) <= tbW
           \/ scrollOff = Active /\ tabWidthAt(TB, Active) > tbW

\* a Render that had to scroll to show the active tab
C26_Witness ==
    /\ lastOp = <<"TabBar.Render">> /\ tbW > 0
    /\ scrollOff > 0 /\ Active > scrollOff
    /\ widthFromTo(TB, scrollOff, Active) <= tbW
    /\ widthFromTo(TB, scrollOff - 1, Active) > tbW

\* the parameter string of the parameters us, joined by semicolons
JoinParams(us) ==
    IF Len(us) = 1 THEN Bytes(us[1])
    ELSE IF Len(us) = 2 THEN Bytes(us[1]) \o <<Byte(";")>> \o Bytes(us[2])
    ELSE Bytes(us[1]) \o <<Byte(";")>> \o Bytes(us[2]) \o <<Byte(";")>> \o Bytes(us[3])

RECURSIVE ListedOnly(_, _)
\* style st after the listed parameters among us, each applied on its own
\* in order, the others passed over
ListedOnly(st, us) ==
    IF us = <<>> THEN st
    ELSE ListedOnly(IF Head(us) \in ListedParams
                    THEN sgrLoop(st, splitParams(Bytes(Head(us))), 1)
                    ELSE st,
                    Tail(us))

\* ESC[...m with the parameters us leaves the style that the listed ones
\* alone give, and the cells as they are
SGRSkips(us) ==
    LET t2 == ProcessOutput(T, <<ESC, Byte("[")>> \o JoinParams(us) \o <<Byte("m")>>)
    IN  t2.curStyle = ListedOnly(curStyle, us) /\ t2.cells = cells

\* C24: in ESC[...m every parameter without a case changes no attribute and
\* the listed parameters around it act as if it were absent; ESC[0m gives the
\* default style; cells printed before keep their style.
C24_SGRLeftToRight ==
    (~panicked /\ state = "stateNormal") =>
        /\ \A a \in ListedParams \cup UnlistedParams :
           \A b \in UnlistedParams :
           \A c \in ListedParams :
              SGRSkips(<<b>>) /\ SGRSkips(<<a, b>>) /\ SGRSkips(<<a, b, c>>)
        /\ ProcessOutput(T, CSISeq(<<"0">>, "m")).curStyle = StyleDefault

\* text between the paste brackets ESC[200~ and ESC[201~
Bracketed(text) ==
    <<ESC, Byte("["), Byte("2"), Byte("0"), Byte("0"), Byte("~")>> \o text
        \o <<ESC, Byte("["), Byte("2"), Byte("0"), Byte("1"), Byte("~")>>

\* C25: WritePaste(text) appends ESC[200~ text ESC[201~ in one run when the
\* last ?2004 sequence processed was a set, and text alone when it was a
\* reset or there was none: the mode starts reset, a set sequence sets it, a
\* reset sequence resets it, no other step changes it, and WritePaste writes
\* by it.
C25_PasteBracketing ==
    /\ ~bracketedPaste
    /\ [][ /\ \A data \in PasteChunks :
               OpsOutput(data) =>
                   bracketedPaste' = CASE pasteModeOf(data) = "set" -> TRUE
                                       [] pasteModeOf(data) = "reset" -> FALSE
                                       [] OTHER -> bracketedPaste
           /\ lastOp' # <<"output">> => bracketedPaste' = bracketedPaste
           /\ \A text \in PasteTexts :
               WritePaste(text) =>
                   ptyOut' = ptyOut \o (IF bracketedPaste THEN Bracketed(text)
                                        ELSE text) ]_vars

\* a paste written between the brackets after the mode was set
C25_Witness ==
    /\ lastOp = <<"paste">>
    /\ bracketedPaste
    /\ ptyOut = Bracketed(<<Byte("A"), LF>>)

(***************************************************************************)
(* The cursor's logical position (tabbar.go:698-762): rows joined through  *)
(* their wrapped flags into logical lines.                                 *)
(***************************************************************************)
\* the rows of the terminal, oldest first: the scrollback, then the live rows
\* that take part in a reflow
RowsOf(t) == reflowInput(t, liveRowCount(t, t.rows))

\* the index in RowsOf(t) of the cursor's row
CursorAbs(t) == Len(t.scrollback) + t.curRow + 1

\* the first row of the logical line that row a belongs to
lineStartOf(rs, a) ==
    CHOOSE s \in 1..a : /\ \A i \in s..(a - 1) : rs[i].wrapped
                         /\ (s = 1 \/ ~rs[s - 1].wrapped)

\* the last row of the logical line that row a belongs to
lineEndOf(rs, a) ==
    CHOOSE e \in a..Len(rs) : /\ \A i \in a..(e - 1) : rs[i].wrapped
                               /\ (e = Len(rs) \/ ~rs[e].wrapped)

\* the number of logical lines that end before row a
lineIndexOf(rs, a) == Cardinality({i \in 1..(a - 1) : ~rs[i].wrapped})

RECURSIVE trimmedLen(_, _, _)
\* the characters of rows i..j, trailing blanks of each row left out
trimmedLen(rs, i, j) ==
    IF i > j THEN 0
    ELSE Len(trimTrailingSpaces(rs[i].cells)) + trimmedLen(rs, i + 1, j)

\* logical line n, offset k of the cursor, and the length of the line
LogLine(t) == lineIndexOf(RowsOf(t), CursorAbs(t))

LogOffset(t) ==
    trimmedLen(RowsOf(t), lineStartOf(RowsOf(t), CursorAbs(t)), CursorAbs(t) - 1)
        + t.curCol

LogLength(t) ==
    trimmedLen(RowsOf(t), lineStartOf(RowsOf(t), CursorAbs(t)),
               lineEndOf(RowsOf(t), CursorAbs(t)))

\* the cursor's row counted from the first row of its logical line
RowInLine(t) == CursorAbs(t) - lineStartOf(RowsOf(t), CursorAbs(t))

\* the cursor of t2 is where offset k of logical line n of t1 went
CursorKept(t1, t2) ==
    /\ LogLine(t2) = LogLine(t1)
    /\ \/ RowInLine(t2) * t2.cols + t2.curCol = LogOffset(t1)
       \/ /\ LogOffset(t1) = LogLength(t1)
          /\ ~RowsOf(t2)[CursorAbs(t2)].wrapped
          /\ t2.curCol = Min(LogLength(t1) - RowInLine(t2) * t2.cols, t2.cols - 1)

\* a Resize step of the main screen: no other operation changes t.rows or
\* t.cols
MainResize == ~altActive /\ ~panicked /\ <<rows', cols'>> # <<rows, cols>>

\* C27: a main-screen Resize keeps the cursor's logical position: from offset
\* k of logical line n the cursor goes to a row of line n at the column of
\* offset k, or to the row end when k is the end of the line.
C27_CursorLogicalPosition == [][MainResize => CursorKept(T, T')]_vars

\* output that fills rows and moves the cursor back up, and resizes of the
\* main screen
ReflowChunks == { <<Byte("A")>>, <<LF>>, CSISeq(<<>>, "H") }

NextReflow ==
    \/ \E data \in ReflowChunks : OutputEvent(data)
    \/ \E sz \in Sizes : ResizeEvent(sz[1], sz[2])

SpecReflow == Init /\ [][NextReflow]_vars

\* steps 2 to 4 on t for the width c: the re-wrapped rows and the cursor
Rewrapped(t, c) ==
    rewrap([out |-> <<>>, found |-> FALSE, row |-> 0, col |-> 0],
           buildLogicalLines(RowsOf(t), <<>>), 1,
           cursorLogical(t, RowsOf(t), 1, 0, 0), c)

\* the re-wrapped row (0-based) that holds the cursor
TargetRow(acc) == IF acc.found THEN acc.row ELSE Max(Len(acc.out) - 1, 0)

\* t2 is the re-wrapped rows out split at ss, with the cursor's row target
SplitAt(t2, out, target, ss) ==
    /\ 0 <= target - ss /\ target - ss < t2.rows
    /\ t2.curRow = target - ss
    /\ t2.scrollback = SubSeq(out, 1, ss)
    /\ \A i \in 1..t2.rows :
          ss + i <= Len(out) =>
              t2.cells[i] = out[ss + i].cells /\ t2.wrapped[i] = out[ss + i].wrapped

\* C28: after a main-screen Resize the re-wrapped row that holds the cursor
\* is in the live grid (its index minus the split point is in [0, newRows),
\* with no clamping needed), and the new scrollback is exactly the re-wrapped
\* rows before the split point, in order, each with its wrapped flag.
C28_SplitKeepsCursorRow ==
    [][MainResize =>
          LET acc == Rewrapped(T, cols')
          IN  \E ss \in 0..Len(acc.out) :
                  SplitAt(T', acc.out, TargetRow(acc), ss)]_vars

\* a scrollback row that a resize has left wrapped, above a cursor that is
\* not on the last row
C28_Witness ==
    /\ ~altActive /\ ~panicked
    /\ \E i \in 1..Len(scrollback) : scrollback[i].wrapped
    /\ curRow < rows - 1

\* a Resize step while the alternate screen is shown
AltResize == altActive /\ ~panicked /\ <<rows', cols'>> # <<rows, cols>>

\* C29: a Resize while the alternate screen is active copies cell (i, j) of
\* the old grid to cell (i, j) of the new one for i < min(oldRows, newRows)
\* and j < min(oldCols, newCols), fills the other cells with default blanks,
\* and leaves the scrollback as it is.
C29_AltResizeCopies ==
    [][AltResize =>
          /\ ~panicked' /\ altActive'
          /\ Len(cells') = rows'
          /\ \A i \in 1..rows' :
                /\ Len(cells'[i]) = cols'
                /\ \A j \in 1..cols' :
                      cells'[i][j] = IF i <= Min(rows, rows') /\ j <= Min(cols, cols')
                                     THEN cells[i][j] ELSE BlankCell
          /\ scrollback' = scrollback]_vars

\* the alternate screen after a resize that kept a character and added
\* blank cells, with rows in the scrollback
C29_Witness ==
    /\ altActive /\ ~panicked /\ altEntry.resized
    /\ scrollback # <<>>
    /\ cells[1][1].Ch = Byte("A")
    /\ rows = 2 /\ cells[2] = BlankRow(cols)

\* output of a full-screen program between ESC[?1049h and ESC[?1049l: text,
\* a style, and text followed by a cursor save (DECSC, CSI s)
AltInner ==
    { <<Byte("A")>>,
      CSISeq(<<"1">>, "m"),
      <<Byte("A"), ESC, Byte("7")>>,
      <<Byte("A")>> \o CSISeq(<<>>, "s") }

\* the terminal after ESC[?1049h, the output inner and ESC[?1049l
AltRoundTrip(t, inner) ==
    ProcessOutput(t, SetMode(<<"1", "0", "4", "9">>) \o inner
                         \o ResetMode(<<"1", "0", "4", "9">>))

\* the cursor and the style of t2 are those of t
SameCursor(t, t2) ==
    t2.curRow = t.curRow /\ t2.curCol = t.curCol /\ t2.curStyle = t.curStyle

\* C30: whatever is output between ESC[?1049h and the matching ESC[?1049l,
\* with no resize between, the cursor row, the cursor column and the current
\* style after the exit are those at the entry.
C30_CursorRestoredOnExit ==
    (~altActive /\ ~panicked /\ state = "stateNormal") =>
        \A inner \in AltInner : SameCursor(T, AltRoundTrip(T, inner))

\* the scroll region of t is the full screen
FullRegion(t) == t.scrollTop = 0 /\ t.scrollBot = t.rows - 1

\* the terminal after ESC[?mh (set) or ESC[?ml
AfterMode(t, m, set) ==
    ProcessOutput(t, IF set THEN SetMode(m) ELSE ResetMode(m))

\* C31 as stated: after every processed set or reset of mode 47, 1047 or
\* 1049 and after every Resize call the scroll region is the full screen.
C31_RegionFullAfterEverySwitch ==
    (~panicked /\ state = "stateNormal") =>
        /\ \A m \in AltModes : \A set \in BOOLEAN : FullRegion(AfterMode(T, m, set))
        /\ \A sz \in Sizes : FullRegion(Resize(T, sz[1], sz[2]))

\* C31 as amended: after every set or reset of mode 47, 1047 or 1049 that
\* enters or leaves the alternate screen, and after every Resize that changes
\* the size, the scroll region is the full screen.
C31_RegionFullAfterSwitch ==
    [][((altActive' # altActive \/ <<rows', cols'>> # <<rows, cols>>) /\ ~panicked')
          => FullRegion(T')]_vars

\* a main screen with a scroll region set by CSI r that entering the
\* alternate screen and a resize both reset
C31_Witness ==
    /\ ~panicked /\ state = "stateNormal" /\ ~altActive
    /\ ~FullRegion(T)
    /\ AfterMode(T, <<"1", "0", "4", "9">>, TRUE).altActive
    /\ FullRegion(AfterMode(T, <<"1", "0", "4", "9">>, TRUE))
    /\ \E sz \in Sizes : sz # <<rows, cols>> /\ FullRegion(Resize(T, sz[1], sz[2]))

\* the row a line feed at the bottom of the region evicts: the top row of the
\* region with its wrapped flag, which the line feed has cleared when that
\* row is the cursor's
Evicted(t) ==
    [cells |-> t.cells[t.scrollTop + 1],
     wrapped |-> IF t.scrollTop = t.curRow THEN FALSE
                 ELSE t.wrapped[t.scrollTop + 1]]

\* sb2 is sb, or sb with line appended and the oldest entry dropped once the
\* length exceeds the capacity
FIFOStep(sb, sb2, line) ==
    \/ sb2 = sb
    \/ sb2 = IF Len(sb) + 1 > ScrollbackCap THEN Tail(Append(sb, line))
             ELSE Append(sb, line)

\* C32: under output processing on the main screen the scrollback is a FIFO:
\* a step leaves it as it is or appends the evicted row with its wrapped flag
\* at the newest end and, once the length exceeds the capacity, drops the
\* single oldest entry; the entries kept stay as they are, in order.
C32_ScrollbackFIFO ==
    [][(~altActive /\ ~altActive' /\ ~panicked'
           /\ <<rows', cols'>> = <<rows, cols>>)
          => \/ scrollback' = scrollback
             \/ /\ InRange(scrollTop, rows)
                /\ FIFOStep(scrollback, scrollback', Evicted(T))]_vars

\* a full scrollback on the main screen: the older entry holds the text that
\* was printed first, the newer one the blank row evicted after it
C32_Witness ==
    /\ ~altActive /\ ~panicked
    /\ Len(scrollback) = ScrollbackCap
    /\ scrollback[1].cells[1].Ch = Byte("A")
    /\ scrollback[Len(scrollback)].cells = BlankRow(cols)
    /\ cells[1][1].Ch = Byte("A")

\* row i (0-based) of t2 is row j of t with the wrapped flag w
RowIs(t2, i, row, w) == t2.cells[i + 1] = row /\ t2.wrapped[i + 1] = w

\* t2 is t after a line feed that scrolls the region: the rows of the region
\* one up, the flag of the cursor's row cleared, the bottom row blank
ScrolledRegion(t, t2) ==
    /\ t2.curRow = t.curRow /\ t2.curCol = t.curCol
    /\ \A i \in 0..(t.rows - 1) :
          IF t.scrollTop <= i /\ i < t.scrollBot
          THEN RowIs(t2, i, t.cells[i + 2],
                     IF i + 1 = t.curRow THEN FALSE ELSE t.wrapped[i + 2])
          ELSE IF i = t.scrollBot THEN RowIs(t2, i, BlankRow(t.cols), FALSE)
          ELSE RowIs(t2, i, t.cells[i + 1], t.wrapped[i + 1])

\* t2 is t after a line feed that only moves the cursor down
MovedDown(t, t2) ==
    /\ t2.curRow = t.curRow + 1 /\ t2.curCol = t.curCol
    /\ t2.cells = t.cells
    /\ t2.wrapped = [t.wrapped EXCEPT ![t.curRow + 1] = FALSE]
    /\ t2.scrollback = t.scrollback

\* C33: a line feed with the cursor on the bottom row of the scroll region
\* moves every row of the region up by one, leaves the bottom row blank and
\* not wrapped, keeps the cursor and the rows outside the region; a line feed
\* elsewhere clears the wrapped flag of the current row and increments the
\* cursor row.
C33_LineFeedFrame ==
    (~panicked /\ state = "stateNormal") =>
        /\ ~ProcessOutput(T, <<LF>>).panicked
        /\ IF curRow = scrollBot
           THEN ScrolledRegion(T, ProcessOutput(T, <<LF>>))
           ELSE MovedDown(T, ProcessOutput(T, <<LF>>))

(***************************************************************************)
(* Operating-system commands: the child writes ESC ] and the string, and   *)
(* the reader goroutine cuts what it writes into chunks wherever a read    *)
(* ends (tabbar.go:541-557).                                               *)
(***************************************************************************)
OSCChunks ==
    { <<ESC, Byte("]")>>, <<Byte("0")>>, <<Byte(";")>>, <<Byte("A")>>,
      <<BEL>>, <<ESC>>, <<Byte("\\")>>, <<ESC, Byte("\\")>> }

NextOSC == \E data \in OSCChunks : Feed(data)

SpecOSC == Init /\ [][NextOSC]_vars

\* the bytes of a string that are no terminator
OSCStringBytes == { Byte("0"), Byte(";"), Byte("A"), Byte("\\") }

\* t2 is t with its string dispatched and the parser back in Normal: the
\* grid, the cursor and the scrollback are those of t
Dispatched(t, t2) ==
    /\ t2 = [processOSC(t) EXCEPT !.state = "stateNormal"]
    /\ t2.cells = t.cells /\ t2.curRow = t.curRow /\ t2.curCol = t.curCol

\* C34: in the OSC state BEL and ESC \ end and dispatch the string without
\* printing anything, however the reads cut the terminator, and any other
\* byte is appended to the string and leaves the parser in the OSC state.
C34_OSCTermination ==
    (~panicked /\ state = "stateOSC") =>
        /\ Dispatched(T, ProcessOutput(T, <<BEL>>))
        /\ Dispatched(T, ProcessOutput(T, <<ESC, Byte("\\")>>))
        /\ Dispatched(T, ProcessOutput(ProcessOutput(T, <<ESC>>), <<Byte("\\")>>))
        /\ \A b \in OSCStringBytes :
               ProcessOutput(T, <<b>>) = [T EXCEPT !.oscBuf = Append(oscBuf, b)]

\* the same with the terminator ESC \ inside one chunk
C34_OSCTerminationInOneChunk ==
    (~panicked /\ state = "stateOSC") =>
        /\ Dispatched(T, ProcessOutput(T, <<BEL>>))
        /\ Dispatched(T, ProcessOutput(T, <<ESC, Byte("\\")>>))
        /\ \A b \in OSCStringBytes :
               ProcessOutput(T, <<b>>) = [T EXCEPT !.oscBuf = Append(oscBuf, b)]

(***************************************************************************)
(* The scroll position: the wheel and Shift+PgUp/PgDn move t.viewOffset,   *)
(* the child scrolls rows into the scrollback and switches screens, and    *)
(* the layout resizes the terminal.                                        *)
(***************************************************************************)
ViewChunks == { <<LF>>, SetMode(<<"1", "0", "4", "9">>), ResetMode(<<"1", "0", "4", "9">>) }

NextView ==
    \/ SetFocused(TRUE)
    \/ \E data \in ViewChunks : OpsOutput(data)
    \/ \E key \in {"ShiftPgUp", "ShiftPgDn"} : HandleKey(key)
    \/ \E btn \in {"WheelUp", "WheelDown"} : HandleMouse(btn, 0, 1)
    \/ \E sz \in SelSizes : ResizeOp(sz[1], sz[2])

SpecView == InitOpsSpec /\ [][NextView]_vars

\* C35: the scroll position is never negative and never more than the
\* scrollback rows plus the screen rows.
C35_ViewOffsetInRange ==
    ~panicked => (0 <= viewOffset /\ viewOffset <= Len(scrollback) + rows)

\* C35 witness: a resize has just cut a scroll position down to the rows
\* there are now, fewer than one wheel step
C35_Witness ==
    /\ ~panicked /\ lastOp = <<"resize">>
    /\ 0 < viewOffset /\ viewOffset < 3
    /\ viewOffset = Len(scrollback) + rows

\* a line feed in t scrolls the full-screen region of the main screen
ScrollsFullScreen(t) ==
    /\ ~t.panicked /\ t.state = "stateNormal" /\ ~t.altActive
    /\ FullRegion(t) /\ t.curRow = t.scrollBot

\* the content rows of t that the scroll to t2 dropped from the scrollback
Dropped(t, t2) == Len(t.scrollback) + 1 - Len(t2.scrollback)

\* the selections from the first cell of content row r to the last of row r2
RowSelection(t, r, r2) ==
    [startRow |-> r, startCol |-> 0, endRow |-> r2, endCol |-> t.cols - 1,
     selecting |-> FALSE]

\* every content row of t still present in t2 has the index it had, and a
\* selection of such rows copies the text it copied
KeepsContentRows(t, t2) ==
    \A r \in Dropped(t, t2)..(Len(t.scrollback) + t.rows - 1) :
        /\ hasContentRow(t2, r)
        /\ contentRowCells(t2, r) = contentRowCells(t, r)
        /\ \A r2 \in r..(Len(t.scrollback) + t.rows - 1) :
               selectionText(t2, RowSelection(t, r, r2))
                   = selectionText(t, RowSelection(t, r, r2))

\* C36: a line feed that scrolls the full-screen region of the main screen
\* leaves every row still present at its content row index (scrollback
\* length plus live row), and a selection of such rows copies the same text.
C36_ContentRowsKeepIndex ==
    ScrollsFullScreen(T) => KeepsContentRows(T, ProcessOutput(T, <<LF>>))

\* the same while the scrollback has room for the evicted row
C36_ContentRowsKeepIndexBelowCap ==
    (ScrollsFullScreen(T) /\ Len(scrollback) < ScrollbackCap)
        => KeepsContentRows(T, ProcessOutput(T, <<LF>>))

\* every row of t, oldest first: the scrollback, then the whole live grid
GridRows(t) == reflowInput(t, t.rows)

RECURSIVE dropBlankTail(_)
\* a sequence of logical lines without the empty lines at its end
dropBlankTail(lines) ==
    IF lines # <<>> /\ lines[Len(lines)] = <<>>
    THEN dropBlankTail(SubSeq(lines, 1, Len(lines) - 1))
    ELSE lines

RECURSIVE joinRows(_, _)
\* the logical lines of the rows: a row marked wrapped is continued by the
\* next one, and the blanks at the end of a line are trimmed
joinRows(input, currentLine) ==
    IF input = <<>>
    THEN IF currentLine # <<>> THEN <<trimTrailingSpaces(currentLine)>> ELSE <<>>
    ELSE IF ~Head(input).wrapped
    THEN <<trimTrailingSpaces(currentLine \o Head(input).cells)>>
             \o joinRows(Tail(input), <<>>)
    ELSE joinRows(Tail(input), currentLine \o Head(input).cells)

\* the content of t: its logical lines, each row's trailing default blanks
\* trimmed, rows joined where a row is marked wrapped, blank lines at the
\* end left out
ContentOf(t) == dropBlankTail(joinRows(GridRows(t), <<>>))

\* C37: a Resize on the main screen keeps the content: the logical lines of
\* the scrollback followed by the live grid are the same after it as before.
C37_ResizeKeepsContent ==
    [][MainResize => ContentOf(T') = ContentOf(T)]_vars

\* C38: when the alternate screen is left, with no resize since it was
\* entered, the wrapped flags of the rows are those the main grid had when
\* the alternate screen was entered, whatever was written in between.
C38_WrappedFlagsRestored ==
    [][(altActive /\ ~altActive' /\ ~panicked' /\ ~altEntry.resized)
        => wrapped' = altEntry.wrapped]_vars

\* the counts N of ESC [ N P: none given, 0, and 1 up to more than the columns
DeleteCounts == { <<>>, <<"0">>, <<"1">>, <<"2">>, <<"3">> }

\* t2 differs from t at most in the cells of the cursor's row at or right of
\* the cursor's column, and that row has cols cells
DeleteFrame(t, t2) ==
    /\ ~t2.panicked
    /\ t2.curRow = t.curRow /\ t2.curCol = t.curCol
    /\ t2.scrollback = t.scrollback
    /\ Len(t2.cells) = Len(t.cells)
    /\ \A i \in 1..Len(t.cells) :
           /\ Len(t2.cells[i]) = t.cols
           /\ \A j \in 1..t.cols :
                  (i # t.curRow + 1 \/ j - 1 < t.curCol) => t2.cells[i][j] = t.cells[i][j]

\* C39: CSI P with any count changes only cells at or right of the cursor's
\* column on the cursor's row; the cells left of the cursor, the other rows,
\* the cursor and the scrollback stay, and the row keeps cols cells.
C39_DeleteCharsFrame ==
    (~panicked /\ state = "stateNormal") =>
        \A n \in DeleteCounts : DeleteFrame(T, ProcessOutput(T, CSISeq(n, "P")))

\* the same for the counts that do not exceed the cells from the cursor to
\* the end of the row
C39_DeleteCharsFrameWithinRow ==
    (~panicked /\ state = "stateNormal") =>
        \A n \in DeleteCounts :
            parseParam(Bytes(n), 1) <= cols - curCol
                => DeleteFrame(T, ProcessOutput(T, CSISeq(n, "P")))

====
